---- MODULE Spec2Model ----
(***************************************************************************)
(* Model of the TraderWeb dashboard (tyl-99/ct-web):                       *)
(*   - the Next.js API routes (data, register-token, send-notification,    *)
(*     accounts),                                                          *)
(*   - the service worker (push de-duplication, fetch cache),              *)
(*   - the NotificationHandler component (token registration, foreground   *)
(*     onMessage de-duplication),                                          *)
(*   - the Home page (initial load, account-change effect, manual fetch).  *)
(* Each part has its own specification; the variables of the other parts   *)
(* stay at their initial values.                                           *)
(***************************************************************************)
EXTENDS Integers, Sequences, FiniteSets, Bags, TLC

\* JavaScript null / undefined / a missing field
Null == "<null>"

\* JavaScript truthiness of a string-or-null value
Truthy(x) == x # Null /\ x # ""

VARIABLES
  \* ---- API routes ----
  apiPc,        \* position of the request handler
  apiReq,       \* the request being handled
  apiResp,      \* the response the handler returned
  apiOut,       \* what the upstream service / CLI last answered
  apiUpstream,  \* number of upstream contacts made for this request
  apiCli        \* CLI commands run for this request, in order

apiVars == <<apiPc, apiReq, apiResp, apiOut, apiUpstream, apiCli>>

VARIABLES
  \* ---- service worker: fetch handler and cache ----
  fcPc,          \* position of the fetch handler
  fcReq,         \* event.request of the fetch event being handled
  fcIntercepted, \* event.respondWith was called for it
  fcServed,      \* where the answer came from
  swCache,       \* the CACHE_NAME cache: request url -> stored response
  swPuts         \* bag of cache writes started and not yet settled

fcVars == <<fcPc, fcReq, fcIntercepted, fcServed, swCache, swPuts>>

VARIABLES
  \* ---- service worker: push handling ----
  notificationShown,           \* module-level flag
  firebaseHandledNotification, \* module-level flag
  swTimers,                    \* bag of pending setTimeout callbacks (ticks left)
  swNotifs,                    \* what registration.getNotifications() reports
                               \* (with the age of each, Date.now() - timestamp)
  swPush,                      \* the pushes received so far (payloads)
  swH,                         \* per push and handler: position and snapshot
  swShows,                     \* per push: number of showNotification calls
  swLastSet,                   \* ticks since notificationShown was last set
  swSetEvents                  \* number of the events that set it in this tick

swVars == <<notificationShown, firebaseHandledNotification, swTimers,
            swNotifs, swPush, swH, swShows, swLastSet, swSetEvents>>

VARIABLES
  \* ---- NotificationHandler: foreground onMessage ----
  fgRecent,      \* localStorage 'recent-notifications': {key, age of its timestamp}
  fgHidden,      \* document.hidden
  fgPermission,  \* Notification.permission
  fgMarked,      \* per data.tag: time since a message with it was last marked as shown
  fgLast,        \* the last message handled and how the handler left
  fgNotifications \* number of browser Notification objects the handler created

fgVars == <<fgRecent, fgHidden, fgPermission, fgMarked, fgLast, fgNotifications>>

VARIABLES
  \* ---- NotificationHandler: token registration ----
  notificationHandlerInitialized, \* module-level flag
  regPc,         \* position of requestPermissionAndGetToken
  lsToken,       \* localStorage 'fcm_token'
  lsRegistered,  \* localStorage 'fcm_token_registered'
  regCurrent,    \* currentToken, what getToken returned
  regPosted,     \* token of the last POST /api/register-token
  regAnswer,     \* how that request ended
  nhMounted,     \* NotificationHandler is mounted (its effects have run)
  nhListeners,   \* foreground onMessage listeners subscribed
  nhCleanup      \* the last run of the effect returned the unsubscribe cleanup

regVars == <<notificationHandlerInitialized, regPc, lsToken, lsRegistered,
             regCurrent, regPosted, regAnswer, nhMounted, nhListeners, nhCleanup>>

VARIABLES
  \* ---- Home page (app/page.tsx) ----
  hasInitialized,        \* module-level flag
  strictMode,            \* reactStrictMode in a development build
  homePhase,             \* "unloaded", "mounted" or "away" (another route shown)
  mountRuns,             \* runs of the mount effects still to be made
  initialLoadComplete,   \* ref
  previousAccountId,     \* ref
  selectedAccountId,     \* state
  accounts,              \* state: account ids of the enabled accounts, in order
  loading,               \* state
  isRefreshing,          \* state
  summaryStats,          \* state: Null or the account whose stats are held
  tradesData,            \* state: Null, "{}" or the account whose trades are held
  fetchingData,          \* state
  fetchError,            \* state
  fetchSuccess,          \* state
  hasAttemptedAutoFetch, \* state
  effectDue,             \* the account-change effect has to run (its dependency changed)
  homeOps,               \* asynchronous operations in flight
  homeReqs,              \* requests the page has issued (a bag)
  reloadIn,              \* delay of the scheduled window.location.reload(), 0 if none
  manualAnswer,          \* what the request of triggerDataFetch was last answered
  userActions            \* number of user actions so far

homeVars == <<hasInitialized, strictMode, homePhase, mountRuns, initialLoadComplete,
              previousAccountId, selectedAccountId, accounts, loading,
              isRefreshing, summaryStats, tradesData, fetchingData, fetchError,
              fetchSuccess, hasAttemptedAutoFetch, effectDue, homeOps, homeReqs,
              reloadIn, manualAnswer, userActions>>

VARIABLES
  \* ---- account manager command line (api/accounts routes) ----
  cmdPc,       \* "idle", "exec" (command built, handed to the shell) or "done"
  cmdArgs,     \* args of runAccountManagerCommand, each a sequence of characters
  cmdLine,     \* command, the line handed to the shell
  cmdParsed    \* the commands and words the shell made of it

cmdVars == <<cmdPc, cmdArgs, cmdLine, cmdParsed>>

vars == <<apiVars, fcVars, swVars, fgVars, regVars, homeVars, cmdVars>>

(***************************************************************************)
(* API routes                                                              *)
(***************************************************************************)

NoResp == [status |-> 0, success |-> Null, error |-> Null]

\* a request: the query parameter of GET /api/data and the JSON body of the
\* POST routes (parsed = FALSE: request.json() throws; isNull: the body is the
\* JSON value null, which request.json() returns and destructuring rejects)
Req(route, accountId, parsed, isNull, token, account_id, name) ==
  [route |-> route, accountId |-> accountId, parsed |-> parsed, isNull |-> isNull,
   token |-> token, account_id |-> account_id, name |-> name]

NoReq == Req("none", Null, FALSE, FALSE, Null, Null, Null)

\* values the accountId query parameter takes (Null: parameter missing)
AccountIdParams == {Null, "", "ALL", "all", "A1"}

\* bodies of the proxied POST requests: not JSON, the JSON value null, or an
\* object with or without a token
ProxyBodies ==
  {[parsed |-> FALSE, isNull |-> FALSE, token |-> Null],
   [parsed |-> TRUE, isNull |-> TRUE, token |-> Null]} \cup
  {[parsed |-> TRUE, isNull |-> FALSE, token |-> t] : t \in {Null, "", "tok1"}}

\* bodies of POST /api/accounts
AccountBodies ==
  {[parsed |-> FALSE, isNull |-> FALSE, account_id |-> Null, name |-> Null],
   [parsed |-> TRUE, isNull |-> TRUE, account_id |-> Null, name |-> Null]} \cup
  {[parsed |-> TRUE, isNull |-> FALSE, account_id |-> a, name |-> n] :
      a \in {Null, "", "A1", "A2"}, n \in {Null, "Main"}}

\* HTTP statuses an upstream service answers with
UpstreamStatuses == {200, 201, 400, 500}

\* response.ok of the fetch API
IsOk(status) == status >= 200 /\ status <= 299

\* what a fetch of an upstream service yields: it throws (unreachable), or
\* answers with a status and a body that is not JSON, is the JSON value null
\* (a property read of it throws), or is a JSON object
NoOutcome ==
  [reached |-> FALSE, status |-> 0, json |-> FALSE, isNull |-> FALSE,
   success |-> FALSE, error |-> Null]

ServiceOutcomes ==
  {NoOutcome} \cup
  {[reached |-> TRUE, status |-> s, json |-> FALSE, isNull |-> FALSE,
    success |-> FALSE, error |-> Null] : s \in UpstreamStatuses} \cup
  {[reached |-> TRUE, status |-> s, json |-> TRUE, isNull |-> TRUE,
    success |-> FALSE, error |-> Null] : s \in UpstreamStatuses} \cup
  {[reached |-> TRUE, status |-> s, json |-> TRUE, isNull |-> FALSE,
    success |-> ok, error |-> e] :
      s \in UpstreamStatuses, ok \in BOOLEAN, e \in {Null, "service error"}}

ApiInit ==
  /\ apiPc = "idle"
  /\ apiReq = NoReq
  /\ apiResp = NoResp
  /\ apiOut = NoOutcome
  /\ apiUpstream = 0
  /\ apiCli = <<>>

\* NextResponse.json({success, error}, {status}); success is "true", "false"
\* or Null when the body has no such field
Respond(status, success, error) ==
  /\ apiResp' = [status |-> status, success |-> success, error |-> error]
  /\ apiPc' = "done"

\* DataGET without the accountId === 'ALL' test
DataGET_NoAllTest(accountId) ==
  /\ apiPc = "idle"
  /\ apiReq' = Req("data", accountId, FALSE, FALSE, Null, Null, Null)
  /\ UNCHANGED <<apiOut, apiCli>>
  /\ IF ~Truthy(accountId)
       THEN /\ Respond(400, Null, "Account ID is required")
            /\ apiUpstream' = apiUpstream
       ELSE /\ apiPc' = "data-upstream"
            /\ apiUpstream' = apiUpstream + 1
            /\ apiResp' = apiResp

\* GET /api/data up to the upstream fetch
DataGET(accountId) ==
  /\ apiPc = "idle"
  /\ apiReq' = Req("data", accountId, FALSE, FALSE, Null, Null, Null)
  /\ UNCHANGED <<apiOut, apiCli>>
  /\ IF ~Truthy(accountId) \/ accountId = "ALL"
       THEN /\ Respond(400, Null, "Account ID is required")
            /\ apiUpstream' = apiUpstream
       ELSE /\ apiPc' = "data-upstream"
            /\ apiUpstream' = apiUpstream + 1
            /\ apiResp' = apiResp

\* GET /api/data after the upstream fetch settled; response.json() and the
\* reads of accountData's properties are inside the try block whose catch
\* answers 500
DataGETUpstream(o) ==
  /\ apiPc = "data-upstream"
  /\ IF ~o.reached THEN Respond(500, Null, "Failed to fetch data from API")
     ELSE IF ~IsOk(o.status) THEN Respond(o.status, Null, "Failed to fetch data from API: status")
     ELSE IF ~o.json \/ o.isNull THEN Respond(500, Null, "Failed to fetch data from API")
     ELSE Respond(200, Null, Null)
  /\ apiOut' = o
  /\ UNCHANGED <<apiReq, apiUpstream, apiCli>>

\* POST /api/register-token and POST /api/send-notification up to the fetch;
\* request.json() and the destructuring of the body are inside the outer try
\* block, whose catch answers 500
ProxyPOST(route, body) ==
  /\ apiPc = "idle"
  /\ apiReq' = Req(route, Null, body.parsed, body.isNull, body.token, Null, Null)
  /\ UNCHANGED <<apiOut, apiCli>>
  /\ IF ~body.parsed \/ body.isNull
       THEN /\ Respond(500, "false", IF route = "register-token"
                                     THEN "Failed to register token"
                                     ELSE "Failed to send notification")
            /\ apiUpstream' = apiUpstream
     ELSE IF ~Truthy(body.token)
       THEN /\ Respond(400, "false", "Device token is required")
            /\ apiUpstream' = apiUpstream
       ELSE /\ apiPc' = "proxy-upstream"
            /\ apiUpstream' = apiUpstream + 1
            /\ apiResp' = apiResp

\* the proxy routes after the fetch of the notification service settled;
\* response.json() and the read of result.success are inside the try block
\* whose catch answers 503; on success register-token answers with a body of
\* its own and send-notification with the service's body as it is
ProxyPOSTUpstream(o) ==
  /\ apiPc = "proxy-upstream"
  /\ IF ~o.reached \/ ~o.json \/ o.isNull
       THEN Respond(503, "false", "Notification service unavailable")
     ELSE IF IsOk(o.status) /\ o.success
       THEN Respond(200, "true", IF apiReq.route = "register-token" THEN Null
                                ELSE o.error)
     ELSE Respond(o.status, "false",
                  IF Truthy(o.error) THEN o.error
                  ELSE IF apiReq.route = "register-token"
                         THEN "Failed to register token"
                         ELSE "Failed to send notification")
  /\ apiOut' = o
  /\ UNCHANGED <<apiReq, apiUpstream, apiCli>>

\* what `validate` yields: runAccountManagerCommand throws, or the CLI's JSON
\* (a JSON null makes `validation.valid` throw inside the same try block);
\* error is the CLI's own message, Null when its JSON has none
ValidateOutcomes ==
  {[threw |-> TRUE, valid |-> FALSE, exists |-> FALSE, error |-> Null]} \cup
  {[threw |-> FALSE, valid |-> v, exists |-> e, error |-> m] :
      v, e \in BOOLEAN,
      m \in {Null, "Account ID must be numeric", "Account already exists"}}

\* what `add` yields: runAccountManagerCommand throws, or the CLI's JSON
\* (a JSON null makes `result.success` throw inside the outer try block)
AddOutcomes ==
  {[threw |-> TRUE, success |-> FALSE, error |-> Null]} \cup
  {[threw |-> FALSE, success |-> ok, error |-> m] :
      ok \in BOOLEAN, m \in {Null, "Database is locked"}}

NoValidation == [threw |-> FALSE, valid |-> FALSE, exists |-> FALSE, error |-> Null]

\* POST /api/accounts up to the `validate` command; request.json() and the
\* destructuring of the body are inside the outer try block, whose catch
\* answers 500
AccountsPOST(body) ==
  /\ apiPc = "idle"
  /\ apiReq' = Req("accounts", Null, body.parsed, body.isNull, Null,
                  body.account_id, body.name)
  /\ UNCHANGED <<apiOut, apiUpstream>>
  /\ IF ~body.parsed \/ body.isNull
       THEN /\ Respond(500, Null, "Failed to add account")
            /\ apiCli' = apiCli
     ELSE IF ~Truthy(body.account_id)
       THEN /\ Respond(400, Null, "account_id is required")
            /\ apiCli' = apiCli
       ELSE /\ apiPc' = "accounts-validate"
            /\ apiCli' = Append(apiCli, [cmd |-> "validate", id |-> body.account_id,
                                         result |-> NoValidation])
            /\ apiResp' = apiResp

\* POST /api/accounts after `validate` settled, up to the `add` command
AccountsPOSTValidated(v) ==
  /\ apiPc = "accounts-validate"
  /\ UNCHANGED <<apiReq, apiOut, apiUpstream>>
  /\ LET log == [apiCli EXCEPT ![Len(apiCli)].result = v] IN
     IF v.threw
       THEN /\ Respond(400, Null, "Account validation failed")
            /\ apiCli' = log
     ELSE IF ~v.valid \/ v.exists
       THEN /\ Respond(400, Null,
                       IF Truthy(v.error) THEN v.error
                       ELSE "Invalid account ID or account already exists")
            /\ apiCli' = log
       ELSE /\ apiPc' = "accounts-add"
            /\ apiCli' = Append(log, [cmd |-> "add", id |-> apiReq.account_id,
                                      result |-> NoValidation])
            /\ apiResp' = apiResp

\* POST /api/accounts after `add` settled
AccountsPOSTAdded(a) ==
  /\ apiPc = "accounts-add"
  /\ IF a.threw THEN Respond(500, Null, "Failed to add account")
     ELSE IF a.success THEN Respond(201, Null, Null)
     ELSE Respond(400, Null,
                  IF Truthy(a.error) THEN a.error ELSE "Failed to add account")
  /\ UNCHANGED <<apiReq, apiOut, apiUpstream, apiCli>>

\* the next request arrives
ApiReset ==
  /\ apiPc = "done"
  /\ apiPc' = "idle"
  /\ apiReq' = NoReq
  /\ apiResp' = NoResp
  /\ apiOut' = NoOutcome
  /\ apiUpstream' = 0
  /\ apiCli' = <<>>

ApiNext ==
  \/ \E a \in AccountIdParams : DataGET(a)
  \/ \E o \in ServiceOutcomes : DataGETUpstream(o)
  \/ \E r \in {"register-token", "send-notification"}, b \in ProxyBodies : ProxyPOST(r, b)
  \/ \E o \in ServiceOutcomes : ProxyPOSTUpstream(o)
  \/ \E b \in AccountBodies : AccountsPOST(b)
  \/ \E v \in ValidateOutcomes : AccountsPOSTValidated(v)
  \/ \E a \in AddOutcomes : AccountsPOSTAdded(a)
  \/ ApiReset



(***************************************************************************)
(* Service worker: fetch handler and cache                                 *)
(***************************************************************************)

\* String.prototype.includes / startsWith on a string given as its pieces
Includes(pieces, piece) == \E i \in 1..Len(pieces) : pieces[i] = piece
StartsWith(pieces, piece) == Len(pieces) > 0 /\ pieces[1] = piece

Url(hostname, port, pathname, query) ==
  [hostname |-> hostname, port |-> port, pathname |-> pathname, query |-> query]

\* request urls of the model; port and pathname are given as their pieces,
\* a query as its single parameter
FetchUrls ==
  { Url("localhost", <<"3000">>, <<"/">>, <<>>),
    Url("127.0.0.1", <<"3000">>, <<"/api/data">>, <<>>),
    Url("localhost", <<"3000", "1">>, <<"/">>, <<>>),
    Url("localhost", <<"8080">>, <<"/proxy/", ":3000", "/x">>, <<>>),
    Url("localhost", <<"8080">>, <<"/manifest.json">>, <<"t", ":3000">>),
    Url("localhost", <<"8080">>, <<"/manifest.json">>, <<>>),
    Url("app.example", <<"3000">>, <<"/manifest.json">>, <<>>),
    Url("app.example", <<>>, <<"/_next/", "static/", "chunks", "/main.js">>, <<>>),
    Url("app.example", <<>>, <<"/_webpack/", "hmr">>, <<>>),
    Url("app.example", <<>>, <<"/static/", "webpack", "-runtime.js">>, <<>>),
    Url("app.example", <<>>, <<"/assets/", "chunks", "/a.js">>, <<>>),
    Url("app.example", <<>>, <<"/app/", "layout.css">>, <<>>),
    Url("app.example", <<>>, <<"/app/", "layout.js">>, <<>>),
    Url("app.example", <<>>, <<"/app/", "page.js">>, <<>>),
    Url("app.example", <<>>, <<"/icon-192x192.png">>, <<"v", "2">>),
    Url("app.example", <<>>, <<"/icon-192x192.png">>, <<>>),
    Url("app.example", <<>>, <<"/api/data">>, <<>>),
    Url("app.example", <<>>, <<"/">>, <<>>) }

\* urlsToCache, as far as the model's urls go
InstallUrls == { Url("app.example", <<>>, <<"/icon-192x192.png">>, <<>>) }

FetchMethods == {"GET", "POST"}

\* Content-Type header values, as their pieces; <<>>: no header
ContentTypes ==
  { <<>>, <<"text/html">>, <<"text/html", "; charset=utf-8">>,
    <<"application/json">> }

NetStatuses == {200, 404, 500}

\* url.href of an http url, as its pieces
Href(url) ==
  <<"http://", url.hostname>>
    \o (IF url.port # <<>> THEN <<":">> \o url.port ELSE <<>>)
    \o url.pathname
    \o (IF url.query # <<>> THEN <<"?">> \o url.query ELSE <<>>)

\* url.href.includes(':3000'): anywhere in the href, so also a port that
\* only starts with 3000, or a pathname or query holding ":3000"
HrefIncludes3000(url) ==
  LET href == Href(url) IN
  \E i \in 1..Len(href) :
     \/ href[i] = ":3000"
     \/ href[i] = ":" /\ i < Len(href) /\ href[i+1] = "3000"

\* url.searchParams.has('v')
HasV(url) == Len(url.query) > 0 /\ url.query[1] = "v"

IsDevServer(url) ==
  /\ url.hostname = "localhost" \/ url.hostname = "127.0.0.1"
  /\ url.port = <<"3000">> \/ HrefIncludes3000(url)

Bypassed(url) ==
  \/ StartsWith(url.pathname, "/_next/")
  \/ StartsWith(url.pathname, "/_webpack/")
  \/ Includes(url.pathname, "webpack")
  \/ Includes(url.pathname, "chunks")
  \/ Includes(url.pathname, "layout.css")
  \/ Includes(url.pathname, "layout.js")
  \/ Includes(url.pathname, "page.js")
  \/ HasV(url)

\* contentType.includes('text/html')
IsHtml(ctype) == Includes(ctype, "text/html")

\* cache.add(url) rejected (network error or a response that is not OK)
CacheAddFailed == <<"failed">>

NoEntry == [status |-> 0, ctype |-> <<>>, method |-> "", by |-> "none"]
LegacyUrl == Url("app.example", <<>>, <<"/api/data">>, <<>>)
LegacyEntry == [status |-> 404, ctype |-> <<"application/json">>, method |-> "GET", by |-> "legacy"]
\* a cache.put(event.request, responseClone) under way
CachePutOf(req, status, ctype) ==
  [url |-> req.url, method |-> req.method, status |-> status, ctype |-> ctype]

\* cache writes under way at a time
MaxPendingPuts == 2

NoFetchReq == [url |-> Url("", <<>>, <<>>, <<>>), method |-> ""]

FcInit ==
  /\ fcPc = "new"
  /\ fcReq = NoFetchReq
  /\ fcIntercepted = FALSE
  /\ fcServed = Null
  /\ swCache = [u \in FetchUrls |-> NoEntry]
  /\ swPuts = EmptyBag

\* Cache Storage outlives the worker script: an entry written under the same
\* CACHE_NAME by an earlier build (a cached 404) may be present at start
FcInitLegacy ==
  /\ fcPc = "new"
  /\ fcReq = NoFetchReq
  /\ fcIntercepted = FALSE
  /\ fcServed = Null
  /\ swCache \in { [u \in FetchUrls |-> NoEntry],
                    [u \in FetchUrls |-> IF u = LegacyUrl THEN LegacyEntry ELSE NoEntry] }
  /\ swPuts = EmptyBag

\* install: cache.add(url) for every url of urlsToCache; add() stores the
\* response when it is OK and fails otherwise (the failure is swallowed)
SwInstall(stored) ==
  /\ fcPc = "new"
  /\ fcPc' = "idle"
  /\ swCache' = [u \in FetchUrls |->
                   IF u \in InstallUrls /\ stored[u] # CacheAddFailed
                     THEN [status |-> 200, ctype |-> stored[u], method |-> "GET", by |-> "install"]
                     ELSE swCache[u]]
  /\ UNCHANGED <<fcReq, fcIntercepted, fcServed, swPuts>>

\* the synchronous part of the fetch listener
FetchEvent(url, method) ==
  /\ fcPc = "idle"
  /\ BagCardinality(swPuts) < MaxPendingPuts
  /\ fcReq' = [url |-> url, method |-> method]
  /\ fcServed' = Null
  /\ UNCHANGED <<swCache, swPuts>>
  /\ IF IsDevServer(url) \/ Bypassed(url) \/ method # "GET"
       THEN fcIntercepted' = FALSE /\ fcPc' = "done"
       ELSE fcIntercepted' = TRUE /\ fcPc' = "match"

\* caches.match(event.request) resolved
FetchMatched ==
  /\ fcPc = "match"
  /\ LET response == swCache[fcReq.url] IN
     IF response # NoEntry
       THEN IF response.status = 404
              THEN fcPc' = "refetch" /\ fcServed' = fcServed
              ELSE fcPc' = "done" /\ fcServed' = "cache"
       ELSE fcPc' = "fetch" /\ fcServed' = fcServed
  /\ UNCHANGED <<fcReq, fcIntercepted, swCache, swPuts>>

\* FetchNetwork as in the previous version of the worker: no isHtml test
FetchNetwork_NoHtmlTest(failed, status, ctype) ==
  /\ fcPc = "fetch"
  /\ fcPc' = "done"
  /\ fcServed' = IF failed THEN "error" ELSE "network"
  /\ swPuts' =
       IF ~failed /\ status # 404 /\ IsOk(status)
         THEN swPuts (+) SetToBag({CachePutOf(fcReq, status, ctype)})
         ELSE swPuts
  /\ UNCHANGED <<fcReq, fcIntercepted, swCache>>

\* fetch(event.request) settled after a cache miss: the response is handed
\* to respondWith; caches.open(CACHE_NAME).then(cache => cache.put(...)) is
\* started and not awaited
FetchNetwork(failed, status, ctype) ==
  /\ fcPc = "fetch"
  /\ fcPc' = "done"
  /\ fcServed' = IF failed THEN "error" ELSE "network"
  /\ swPuts' =
       IF ~failed /\ status # 404 /\ IsOk(status) /\ ~IsHtml(ctype)
         THEN swPuts (+) SetToBag({CachePutOf(fcReq, status, ctype)})
         ELSE swPuts
  /\ UNCHANGED <<fcReq, fcIntercepted, swCache>>

\* caches.open() and cache.put(event.request, responseClone) settled, at any
\* later time; a rejection (quota, a 206 or `Vary: *` response) goes unhandled
\* and leaves the cache as it was
CachePutSettles(put, rejected) ==
  /\ BagIn(put, swPuts)
  /\ swPuts' = swPuts (-) SetToBag({put})
  /\ swCache' =
       IF rejected THEN swCache
       ELSE [swCache EXCEPT ![put.url] =
               [status |-> put.status, ctype |-> put.ctype, method |-> put.method,
                by |-> "fetch"]]
  /\ UNCHANGED <<fcPc, fcReq, fcIntercepted, fcServed>>

\* fetch(event.request) settled after a cached 404 was found
FetchRefetched(failed) ==
  /\ fcPc = "refetch"
  /\ fcPc' = "done"
  /\ fcServed' = IF failed THEN "error" ELSE "network"
  /\ UNCHANGED <<fcReq, fcIntercepted, swCache, swPuts>>

\* the next fetch event
FetchFinished ==
  /\ fcPc = "done"
  /\ fcPc' = "idle"
  /\ fcReq' = NoFetchReq
  /\ fcIntercepted' = FALSE
  /\ fcServed' = Null
  /\ UNCHANGED <<swCache, swPuts>>

FcNext ==
  \/ \E stored \in [InstallUrls -> ContentTypes \cup {CacheAddFailed}] : SwInstall(stored)
  \/ \E u \in FetchUrls, m \in FetchMethods : FetchEvent(u, m)
  \/ FetchMatched
  \/ \E failed \in BOOLEAN, st \in NetStatuses, ct \in ContentTypes : FetchNetwork(failed, st, ct)
  \/ \E failed \in BOOLEAN : FetchRefetched(failed)
  \/ \E put \in BagToSet(swPuts), rejected \in BOOLEAN : CachePutSettles(put, rejected)
  \/ FetchFinished

(***************************************************************************)
(* Service worker: push handling                                           *)
(***************************************************************************)

\* number of pushes received
MaxPushes == 2

NOTIFICATION_TIMEOUT == 1000
\* model time advances in steps of SwTick milliseconds; time is kept as
\* the ticks left of each timer and the age of each notification
SwTick == NOTIFICATION_TIMEOUT
\* the "within last 2 seconds" window of the title/body check
RecentWindow == 2000

Handlers == {"fb", "native"}

\* a notification tag: payload.data.tag, or the tag a handler generates from
\* Date.now() and Math.random() (distinct for every handler run)
DataTag(name) == [src |-> "data", name |-> name, p |-> 0, h |-> ""]
GenTag(p, h) == [src |-> "gen", name |-> "", p |-> p, h |-> h]

\* push payloads: data.tag, notification.title, notification.body, and the
\* payload's own title and body (Null: absent)
Payload(tag, title, body, dtitle, dbody) ==
  [tag |-> tag, title |-> title, body |-> body, dtitle |-> dtitle, dbody |-> dbody]

Payloads ==
  { Payload(t, c[1], c[2], c[3], c[4]) :
      t \in {Null, "t1"},
      c \in { <<Null, Null, Null, Null>>,
              <<"Trade", "Closed", Null, Null>>,
              <<Null, Null, "Trade", "Closed">>,
              <<"Trade", Null, "Alert", "Closed">> } }

\* const tag = payload.data?.tag || `trader-notif-${Date.now()}-${Math.random()...}`
TagOf(payload, p, h) ==
  IF Truthy(payload.tag) THEN DataTag(payload.tag) ELSE GenTag(p, h)

\* title and body each handler displays:
\*   payload.notification?.title || 'Background Message Title'
\*   data.notification?.title || data.title || 'Notification'
TitleOf(payload, h) ==
  IF Truthy(payload.title) THEN payload.title
  ELSE IF h = "fb" THEN "Background Message Title"
  ELSE IF Truthy(payload.dtitle) THEN payload.dtitle
  ELSE "Notification"

\*   payload.notification?.body || 'Background Message body.'
\*   data.notification?.body || data.body || ''
BodyOf(payload, h) ==
  IF Truthy(payload.body) THEN payload.body
  ELSE IF h = "fb" THEN "Background Message body."
  ELSE IF Truthy(payload.dbody) THEN payload.dbody
  ELSE ""

\* age standing for "no such notification" / "not within the window"
NotRecent == RecentWindow \div SwTick

\* time, in ticks, since notificationShown was last set to true by a shown
\* notification or a broadcast: 0, or this for NOTIFICATION_TIMEOUT and more.
\* A showNotification call whose rejection took the flag back (the inner
\* .catch) is no such event, no notification was shown: swSetEvents counts
\* the events of the current tick, and the handler run that set the flag in
\* this tick (justSet) takes its own event back, and no other.
SetLongAgo == NOTIFICATION_TIMEOUT \div SwTick

\* a handler run: its position and, once getNotifications() settled, what
\* the reported list holds for this push: a notification with its tag, and
\* the age of the youngest notification with its title and body
HIdle == [pc |-> "none", rejected |-> FALSE, tagMatches |-> FALSE, recentAge |-> NotRecent,
          justSet |-> FALSE]

SwInit ==
  /\ notificationShown = FALSE
  /\ firebaseHandledNotification = FALSE
  /\ swTimers = EmptyBag
  /\ swNotifs = {}
  /\ swPush = <<>>
  /\ swH = [p \in 1..MaxPushes |-> [h \in Handlers |-> HIdle]]
  /\ swShows = [p \in 1..MaxPushes |-> 0]
  /\ swLastSet = SetLongAgo
  /\ swSetEvents = 0

\* setTimeout(() => { flag = false }, NOTIFICATION_TIMEOUT)
Timer(flag) == [left |-> NOTIFICATION_TIMEOUT \div SwTick, flag |-> flag]

\* every setTimeout call adds a callback of its own, also when one for the
\* same flag and the same time is pending
Started(timers, flags) ==
  timers (+) [t \in {Timer(f) : f \in flags} |-> 1]

\* timers pending when a broadcast is taken in
MaxTimers == 3

\* registration.showNotification: a notification with the same tag is replaced
Shown(notifs, tag, title, body) ==
  {n \in notifs : n.tag # tag} \cup
  {[tag |-> tag, title |-> title, body |-> body, age |-> 0]}

\* a push message arrives; it is dispatched to the Firebase background
\* handler, to the native 'push' listener, or to both
PushArrives(payload, hs) ==
  /\ Len(swPush) < MaxPushes
  /\ hs # {}
  /\ swPush' = Append(swPush, payload)
  /\ swH' = [swH EXCEPT ![Len(swPush) + 1] =
               [h \in Handlers |-> IF h \in hs THEN [HIdle EXCEPT !.pc = "queued"] ELSE HIdle]]
  /\ UNCHANGED <<notificationShown, firebaseHandledNotification, swTimers,
                 swNotifs, swShows, swLastSet, swSetEvents>>

\* messaging.onBackgroundMessage, up to getNotifications()
FbReceive(p) ==
  /\ p \in 1..Len(swPush)
  /\ swH[p]["fb"].pc = "queued"
  /\ swH' = [swH EXCEPT ![p]["fb"].pc = IF notificationShown THEN "blocked" ELSE "await"]
  /\ UNCHANGED <<notificationShown, firebaseHandledNotification, swTimers,
                 swNotifs, swPush, swShows, swLastSet, swSetEvents>>

\* the 'push' listener, up to getNotifications()
NativeReceive(p) ==
  /\ p \in 1..Len(swPush)
  /\ swH[p]["native"].pc = "queued"
  /\ swH' = [swH EXCEPT ![p]["native"].pc =
               IF firebaseHandledNotification \/ notificationShown THEN "blocked" ELSE "await"]
  /\ UNCHANGED <<notificationShown, firebaseHandledNotification, swTimers,
                 swNotifs, swPush, swShows, swLastSet, swSetEvents>>

\* age of the youngest notification of the list with this title and body
YoungestAge(allNotifications, title, body) ==
  LET ages == {n.age : n \in {m \in allNotifications : m.title = title /\ m.body = body}}
  IN IF ages = {} THEN NotRecent
     ELSE CHOOSE a \in ages : \A b \in ages : a <= b

\* getNotifications() settles: it reports the notifications displayed at
\* that moment, or rejects
GetNotificationsSettles(p, h, rejected) ==
  /\ p \in 1..Len(swPush)
  /\ swH[p][h].pc = "await"
  /\ LET tag   == TagOf(swPush[p], p, h)
         title == TitleOf(swPush[p], h)
         body  == BodyOf(swPush[p], h)
     IN swH' = [swH EXCEPT ![p][h] =
                 IF rejected
                   THEN [HIdle EXCEPT !.pc = "then", !.rejected = TRUE]
                   ELSE [pc |-> "then", rejected |-> FALSE,
                         tagMatches |-> \E n \in swNotifs : n.tag = tag,
                         recentAge |-> YoungestAge(swNotifs, title, body),
                         justSet |-> FALSE]]
  /\ UNCHANGED <<notificationShown, firebaseHandledNotification, swTimers,
                 swNotifs, swPush, swShows, swLastSet, swSetEvents>>

\* the tag check (tagMatches.length > 0) and the title/body check
\* (timeDiff < 2000 for a notification with the same title and body)
IsDuplicate(h) ==
  \/ h.tagMatches
  \/ h.recentAge * SwTick < RecentWindow

\* the callbacks of the Firebase background handler that run when
\* getNotifications() settled: the .then callback up to the showNotification
\* call, or the outer .catch (fallback) up to its showNotification call
FbThen(p) ==
  /\ p \in 1..Len(swPush)
  /\ swH[p]["fb"].pc = "then"
  /\ LET h == swH[p]["fb"] IN
     IF h.rejected
       THEN \* fallback: show anyway
            /\ notificationShown' = TRUE
            /\ swLastSet' = 0
            /\ swSetEvents' = swSetEvents + 1
            /\ swTimers' = Started(swTimers, {"shown"})
            /\ swShows' = [swShows EXCEPT ![p] = @ + 1]
            /\ swH' = [swH EXCEPT ![p]["fb"] =
                         [HIdle EXCEPT !.pc = "showing", !.rejected = TRUE]]
            /\ UNCHANGED firebaseHandledNotification
     ELSE IF IsDuplicate(h)
       THEN /\ swH' = [swH EXCEPT ![p]["fb"] = [HIdle EXCEPT !.pc = "blocked"]]
            /\ UNCHANGED <<notificationShown, firebaseHandledNotification, swTimers,
                           swShows, swLastSet, swSetEvents>>
       ELSE /\ notificationShown' = TRUE
            /\ swLastSet' = 0
            /\ swSetEvents' = swSetEvents + 1
            /\ firebaseHandledNotification' = TRUE
            /\ swTimers' = Started(swTimers, {"shown", "firebase"})
            /\ swShows' = [swShows EXCEPT ![p] = @ + 1]
            /\ swH' = [swH EXCEPT ![p]["fb"] =
                         [HIdle EXCEPT !.pc = "showing", !.justSet = TRUE]]
  /\ UNCHANGED <<swPush, swNotifs>>

\* the showNotification promise of the Firebase background handler settles:
\* the notification is on display, or the call is rejected; the .catch on the
\* call inside the .then callback resets both flags, the call of the
\* fallback has no .catch
FbShowSettles(p, showOk) ==
  /\ p \in 1..Len(swPush)
  /\ swH[p]["fb"].pc = "showing"
  /\ LET payload == swPush[p] IN
     IF showOk
       THEN /\ swNotifs' = Shown(swNotifs, TagOf(payload, p, "fb"),
                                 TitleOf(payload, "fb"), BodyOf(payload, "fb"))
            /\ swH' = [swH EXCEPT ![p]["fb"] = [HIdle EXCEPT !.pc = "shown"]]
            /\ UNCHANGED <<notificationShown, firebaseHandledNotification,
                           swLastSet, swSetEvents>>
       ELSE /\ swNotifs' = swNotifs
            /\ swH' = [swH EXCEPT ![p]["fb"] = [HIdle EXCEPT !.pc = "failed"]]
            /\ IF swH[p]["fb"].rejected
                 THEN UNCHANGED <<notificationShown, firebaseHandledNotification,
                                  swLastSet, swSetEvents>>
                 ELSE \* .catch: reset flags on error so retry can work
                      /\ notificationShown' = FALSE
                      /\ firebaseHandledNotification' = FALSE
                      /\ swSetEvents' = IF swH[p]["fb"].justSet
                                          THEN swSetEvents - 1 ELSE swSetEvents
                      /\ swLastSet' = IF swSetEvents' > 0 THEN 0 ELSE SetLongAgo
  /\ UNCHANGED <<swPush, swTimers, swShows>>

\* the .then callback of the native 'push' listener, up to the
\* showNotification call (there is no .catch: when getNotifications()
\* rejected, no callback runs)
NativeThen(p) ==
  /\ p \in 1..Len(swPush)
  /\ swH[p]["native"].pc = "then"
  /\ LET h == swH[p]["native"] IN
     IF h.rejected
       THEN /\ swH' = [swH EXCEPT ![p]["native"] = [HIdle EXCEPT !.pc = "failed"]]
            /\ UNCHANGED <<notificationShown, swTimers, swShows, swLastSet, swSetEvents>>
     ELSE IF IsDuplicate(h)
       THEN /\ swH' = [swH EXCEPT ![p]["native"] = [HIdle EXCEPT !.pc = "blocked"]]
            /\ UNCHANGED <<notificationShown, swTimers, swShows, swLastSet, swSetEvents>>
       ELSE /\ notificationShown' = TRUE
            /\ swLastSet' = 0
            /\ swSetEvents' = swSetEvents + 1
            /\ swTimers' = Started(swTimers, {"shown"})
            /\ swShows' = [swShows EXCEPT ![p] = @ + 1]
            /\ swH' = [swH EXCEPT ![p]["native"] = [HIdle EXCEPT !.pc = "showing"]]
  /\ UNCHANGED <<swPush, swNotifs, firebaseHandledNotification>>

\* the showNotification promise handed to event.waitUntil settles
NativeShowSettles(p, showOk) ==
  /\ p \in 1..Len(swPush)
  /\ swH[p]["native"].pc = "showing"
  /\ LET payload == swPush[p] IN
     IF showOk
       THEN /\ swNotifs' = Shown(swNotifs, TagOf(payload, p, "native"),
                                 TitleOf(payload, "native"), BodyOf(payload, "native"))
            /\ swH' = [swH EXCEPT ![p]["native"] = [HIdle EXCEPT !.pc = "shown"]]
       ELSE /\ swNotifs' = swNotifs
            /\ swH' = [swH EXCEPT ![p]["native"] = [HIdle EXCEPT !.pc = "failed"]]
  /\ UNCHANGED <<notificationShown, firebaseHandledNotification, swPush, swTimers,
                 swShows, swLastSet, swSetEvents>>

\* broadcastChannel.onmessage: another context showed a notification
BroadcastReceived ==
  /\ BagCardinality(swTimers) < MaxTimers
  /\ notificationShown' = TRUE
  /\ swTimers' = Started(swTimers, {"shown"})
  /\ swLastSet' = 0
  /\ swSetEvents' = swSetEvents + 1
  /\ UNCHANGED <<firebaseHandledNotification, swNotifs, swPush, swH, swShows>>

\* age of a notification one tick later; ages beyond the title/body window
\* are not told apart
Older(age) == IF age * SwTick >= RecentWindow THEN age ELSE age + 1

\* a setTimeout callback runs when it is due; of two callbacks started for
\* the same flag at the same time each runs on its own
TimerFires(t) ==
  /\ BagIn(t, swTimers)
  /\ t.left = 0
  /\ swTimers' = swTimers (-) SetToBag({t})
  /\ IF t.flag = "shown"
       THEN notificationShown' = FALSE /\ UNCHANGED firebaseHandledNotification
       ELSE firebaseHandledNotification' = FALSE /\ UNCHANGED notificationShown
  /\ UNCHANGED <<swNotifs, swPush, swH, swShows, swLastSet, swSetEvents>>

\* time passes; callbacks that are due run first
SwTickPasses ==
  /\ \A t \in BagToSet(swTimers) : t.left > 0
  /\ swTimers' = [t \in {[u EXCEPT !.left = @ - 1] : u \in BagToSet(swTimers)} |->
                     swTimers[[t EXCEPT !.left = @ + 1]]]
  /\ swNotifs' = {[n EXCEPT !.age = Older(@)] : n \in swNotifs}
  /\ swH' = [p \in 1..MaxPushes |-> [h \in Handlers |->
               [swH[p][h] EXCEPT !.recentAge = Older(@), !.justSet = FALSE]]]
  /\ swLastSet' = SetLongAgo
  /\ swSetEvents' = 0
  /\ UNCHANGED <<notificationShown, firebaseHandledNotification, swPush, swShows>>

\* notificationclick / dismissal: the notification is closed
NotificationClosed(n) ==
  /\ n \in swNotifs
  /\ swNotifs' = swNotifs \ {n}
  /\ UNCHANGED <<notificationShown, firebaseHandledNotification, swTimers,
                 swPush, swH, swShows, swLastSet, swSetEvents>>

\* what the worker does with the pushes it has received, and what happens
\* around it
SwSteps ==
  \/ \E p \in 1..MaxPushes : FbReceive(p)
  \/ \E p \in 1..MaxPushes : NativeReceive(p)
  \/ \E p \in 1..MaxPushes, h \in Handlers, r \in BOOLEAN : GetNotificationsSettles(p, h, r)
  \/ \E p \in 1..MaxPushes : FbThen(p)
  \/ \E p \in 1..MaxPushes, ok \in BOOLEAN : FbShowSettles(p, ok)
  \/ \E p \in 1..MaxPushes : NativeThen(p)
  \/ \E p \in 1..MaxPushes, ok \in BOOLEAN : NativeShowSettles(p, ok)
  \/ BroadcastReceived
  \/ \E t \in BagToSet(swTimers) : TimerFires(t)
  \/ SwTickPasses
  \/ \E n \in swNotifs : NotificationClosed(n)

\* MaxPushes pushes, each dispatched to one of the two handlers
SwNext ==
  \/ \E payload \in Payloads, h \in Handlers : PushArrives(payload, {h})
  \/ SwSteps

\* one push, dispatched to both handlers
SwBothNext ==
  \/ \E payload \in Payloads : swPush = <<>> /\ PushArrives(payload, Handlers)
  \/ SwSteps

(***************************************************************************)
(* NotificationHandler: foreground onMessage handler                       *)
(***************************************************************************)

\* model time advances in steps of FgTick milliseconds; a timestamp is kept
\* as its age, now - timestamp
NOTIFICATION_COOLDOWN == 2000
FgTick == NOTIFICATION_COOLDOWN \div 2

\* values of payload.data.tag (Null: absent, the handler generates a tag)
FgTags == {"t1", "t2"}

\* the key generated for a message without data.tag; generated keys differ
\* from every data.tag and from one another, and are never looked up again
GenKey == "notif-shown-trader-notif-<generated>"

\* const notificationKey = `notif-shown-${uniqueTag}`
KeyOf(tag) == IF Truthy(tag) THEN tag ELSE GenKey

\* ages beyond the cooldown are not told apart
FgOlder(age) == IF age * FgTick > NOTIFICATION_COOLDOWN THEN age ELSE age + 1
FgNever == (NOTIFICATION_COOLDOWN \div FgTick) + 1

Permissions == {"default", "granted", "denied"}

FgInit ==
  /\ fgRecent = {}
  /\ fgHidden = FALSE
  /\ fgPermission = "granted"
  /\ fgMarked = [t \in FgTags |-> FgNever]
  /\ fgLast = [seq |-> 0, tag |-> Null, outcome |-> "none"]
  /\ fgNotifications = 0

\* Object.keys(recentNotifications).forEach: delete entries older than the cooldown
Cleaned(recent) == {e \in recent : ~(e.age * FgTick > NOTIFICATION_COOLDOWN)}

\* recentNotifications[notificationKey] is set (a generated key never is)
IsRecent(recent, tag) == Truthy(tag) /\ \E e \in recent : e.key = KeyOf(tag)

\* recentNotifications[notificationKey] = now
Marked(recent, tag) ==
  {e \in recent : e.key # KeyOf(tag) \/ ~Truthy(tag)} \cup {[key |-> KeyOf(tag), age |-> 0]}

\* the onMessage callback with the `return` of the duplicate branch missing
OnMessage_NoReturn(tag) ==
  LET recentNotifications == Cleaned(fgRecent) IN
  /\ fgRecent' = Marked(recentNotifications, tag)
  /\ fgMarked' = IF Truthy(tag) THEN [fgMarked EXCEPT ![tag] = 0] ELSE fgMarked
  /\ fgLast' = [seq |-> 1 - fgLast.seq, tag |-> tag,
                outcome |-> IF fgHidden THEN "hidden"
                            ELSE IF fgPermission = "granted" THEN "delegated"
                            ELSE "no-permission"]
  /\ UNCHANGED <<fgHidden, fgPermission, fgNotifications>>

\* the onMessage callback creating `new Notification(...)` itself where it
\* now only logs the delegation
OnMessage_CreatesNotification(tag) ==
  LET recentNotifications == Cleaned(fgRecent) IN
  /\ IF IsRecent(recentNotifications, tag)
       THEN /\ fgLast' = [seq |-> 1 - fgLast.seq, tag |-> tag, outcome |-> "duplicate"]
            /\ UNCHANGED <<fgRecent, fgMarked>>
       ELSE /\ fgRecent' = Marked(recentNotifications, tag)
            /\ fgMarked' = IF Truthy(tag) THEN [fgMarked EXCEPT ![tag] = 0] ELSE fgMarked
            /\ fgLast' = [seq |-> 1 - fgLast.seq, tag |-> tag,
                          outcome |-> IF fgHidden THEN "hidden"
                                      ELSE IF fgPermission = "granted" THEN "delegated"
                                      ELSE "no-permission"]
  /\ fgNotifications' =
       IF ~IsRecent(recentNotifications, tag) /\ ~fgHidden /\ fgPermission = "granted"
         THEN fgNotifications + 1 ELSE fgNotifications
  /\ UNCHANGED <<fgHidden, fgPermission>>

\* the onMessage callback (it runs to its end without awaiting)
OnMessage(tag) ==
  LET recentNotifications == Cleaned(fgRecent) IN
  /\ IF IsRecent(recentNotifications, tag)
       THEN /\ fgLast' = [seq |-> 1 - fgLast.seq, tag |-> tag, outcome |-> "duplicate"]
            /\ UNCHANGED <<fgRecent, fgMarked>>
       ELSE /\ fgRecent' = Marked(recentNotifications, tag)
            /\ fgMarked' = IF Truthy(tag) THEN [fgMarked EXCEPT ![tag] = 0] ELSE fgMarked
            /\ fgLast' = [seq |-> 1 - fgLast.seq, tag |-> tag,
                          outcome |-> IF fgHidden THEN "hidden"
                                      ELSE IF fgPermission = "granted" THEN "delegated"
                                      ELSE "no-permission"]
  /\ UNCHANGED <<fgHidden, fgPermission, fgNotifications>>

FgTickPasses ==
  /\ fgRecent' = {[e EXCEPT !.age = FgOlder(@)] : e \in fgRecent}
  /\ fgMarked' = [t \in FgTags |-> FgOlder(fgMarked[t])]
  /\ UNCHANGED <<fgHidden, fgPermission, fgLast, fgNotifications>>

\* the page is hidden or shown; the user changes the permission
FgEnvironment(hidden, permission) ==
  /\ fgHidden' = hidden
  /\ fgPermission' = permission
  /\ UNCHANGED <<fgRecent, fgMarked, fgLast, fgNotifications>>

FgNext ==
  \/ \E tag \in FgTags \cup {Null} : OnMessage(tag)
  \/ FgTickPasses
  \/ \E hidden \in BOOLEAN, permission \in Permissions : FgEnvironment(hidden, permission)

(***************************************************************************)
(* NotificationHandler: token registration                                 *)
(***************************************************************************)

\* FCM registration tokens
Tokens == {"tokA", "tokB"}

RegInit ==
  /\ notificationHandlerInitialized = FALSE
  /\ regPc = "loaded"
  /\ lsToken = Null
  /\ lsRegistered = Null
  /\ regCurrent = Null
  /\ regPosted = Null
  /\ regAnswer = "none"
  /\ nhMounted = FALSE
  /\ nhListeners = 0
  /\ nhCleanup = FALSE

\* the page is (re)loaded: module state starts afresh, localStorage stays
PageLoad ==
  /\ notificationHandlerInitialized' = FALSE
  /\ regPc' = "loaded"
  /\ regCurrent' = Null
  /\ nhMounted' = FALSE
  /\ nhListeners' = 0
  /\ nhCleanup' = FALSE
  /\ UNCHANGED <<lsToken, lsRegistered, regPosted, regAnswer>>

\* requestPermissionAndGetToken once currentPermission is known, up to its
\* next await: setPermission, and with permission granted the stored-token
\* check on what localStorage holds at that moment
AfterPermission(currentPermission, storedToken, registeredToken) ==
  IF currentPermission = "granted"
    THEN IF Truthy(storedToken) /\ registeredToken = storedToken
           THEN "skipped"
           ELSE "getToken"
    ELSE "denied"

\* the init effect of a mount (messaging and VAPID_KEY available): the
\* module-level guard, the call of requestPermissionAndGetToken, which runs
\* up to its first await, and the onMessage subscription whose unsubscribe
\* is returned as cleanup; permission is Notification.permission at that
\* time: with 'default' the function stops at
\* `await Notification.requestPermission()`
InitEffect(permission) ==
  /\ ~nhMounted
  /\ nhMounted' = TRUE
  /\ IF notificationHandlerInitialized
       THEN /\ nhCleanup' = FALSE
            /\ UNCHANGED <<notificationHandlerInitialized, regPc, lsToken, lsRegistered,
                           regCurrent, regPosted, regAnswer, nhListeners>>
       ELSE /\ notificationHandlerInitialized' = TRUE
            /\ nhListeners' = nhListeners + 1
            /\ nhCleanup' = TRUE
            /\ regPc' = IF permission = "default"
                          THEN "permission"
                          ELSE AfterPermission(permission, lsToken, lsRegistered)
            /\ UNCHANGED <<lsToken, lsRegistered, regCurrent, regPosted, regAnswer>>

\* Notification.requestPermission() settled with the user's answer
\* ('default' when the prompt was dismissed); the function goes on, mounted
\* or not
PermissionSettles(currentPermission) ==
  /\ regPc = "permission"
  /\ regPc' = AfterPermission(currentPermission, lsToken, lsRegistered)
  /\ UNCHANGED <<notificationHandlerInitialized, lsToken, lsRegistered, regCurrent,
                 regPosted, regAnswer, nhMounted, nhListeners, nhCleanup>>

\* getToken settled (after the service worker became ready): a token, no
\* token (Null), or all strategies failed; then the registration request
GetTokenSettles(failed, currentToken) ==
  /\ regPc = "getToken"
  /\ IF failed \/ ~Truthy(currentToken)
       THEN /\ regPc' = "done"
            /\ UNCHANGED <<lsToken, lsRegistered, regCurrent, regPosted, regAnswer>>
       ELSE /\ lsToken' = currentToken
            /\ regCurrent' = currentToken
            /\ LET registeredToken == lsRegistered IN
               IF currentToken = registeredToken
                 THEN /\ regPc' = "done"
                      /\ UNCHANGED <<regPosted, regAnswer>>
                 ELSE /\ regPc' = "posting"
                      /\ regPosted' = currentToken
                      /\ regAnswer' = "pending"
            /\ UNCHANGED lsRegistered
  /\ UNCHANGED <<notificationHandlerInitialized, nhMounted, nhListeners, nhCleanup>>

RegisterAnswers == {"success", "failed", "error"}

\* RegisterSettles storing the token whatever data.success is
RegisterSettles_NoSuccessTest(answer) ==
  /\ regPc = "posting"
  /\ regPc' = "done"
  /\ regAnswer' = answer
  /\ lsRegistered' = IF answer # "error" THEN regPosted ELSE lsRegistered
  /\ UNCHANGED <<notificationHandlerInitialized, lsToken, regCurrent, regPosted,
                 nhMounted, nhListeners, nhCleanup>>

\* POST /api/register-token settled: data.success true, data.success false,
\* or the fetch / response.json() rejected
RegisterSettles(answer) ==
  /\ regPc = "posting"
  /\ regPc' = "done"
  /\ regAnswer' = answer
  /\ lsRegistered' = IF answer = "success" THEN regPosted ELSE lsRegistered
  /\ UNCHANGED <<notificationHandlerInitialized, lsToken, regCurrent, regPosted,
                 nhMounted, nhListeners, nhCleanup>>

\* clearFCMTokenStorage()
ClearFCMTokenStorage ==
  /\ lsToken' = Null
  /\ lsRegistered' = Null
  /\ UNCHANGED <<notificationHandlerInitialized, regPc, regCurrent, regPosted, regAnswer,
                 nhMounted, nhListeners, nhCleanup>>

\* the component unmounts (also the unmount React StrictMode simulates
\* between the two runs of a mount effect): the cleanup, if the effect
\* returned one, unsubscribes; requests in flight go on
Unmount ==
  /\ nhMounted
  /\ nhMounted' = FALSE
  /\ nhListeners' = IF nhCleanup THEN nhListeners - 1 ELSE nhListeners
  /\ nhCleanup' = FALSE
  /\ UNCHANGED <<notificationHandlerInitialized, regPc, lsToken, lsRegistered,
                 regCurrent, regPosted, regAnswer>>

RegNext ==
  \/ PageLoad
  \/ \E permission \in Permissions : InitEffect(permission)
  \/ \E permission \in Permissions : PermissionSettles(permission)
  \/ Unmount
  \/ \E failed \in BOOLEAN, t \in Tokens \cup {Null} : GetTokenSettles(failed, t)
  \/ \E a \in RegisterAnswers : RegisterSettles(a)
  \/ ClearFCMTokenStorage

(***************************************************************************)
(* Home page (app/page.tsx)                                                *)
(***************************************************************************)

\* user actions explored per page load
MaxUserActions == 2

\* answers that start an automatic fetch are explored this often per page load
MaxAutoFetches == 1

\* delay of the reload after a successful manual fetch
ReloadDelay == 4000

\* checkForData gives up after this attempt
MaxAttempts == 5

\* what /api/accounts may list as enabled accounts
AccountLists == {<<>>, <<"A1">>, <<"A1", "A2">>}

\* a specific account id: neither null/empty nor 'ALL'
Specific(id) == Truthy(id) /\ id # "ALL"

\* a request the page issues; site is the function that issues it, by the
\* asynchronous operation it belongs to
HomeReq(method, url, accountId, site, by) ==
  [method |-> method, url |-> url, accountId |-> accountId, site |-> site, by |-> by]

\* the requests issued so far with one more
Sent(reqs, req) == reqs (+) SetToBag({req})

\* an asynchronous operation in flight. sel, accts and attempted are
\* selectedAccountId, accounts and hasAttemptedAutoFetch as captured by the
\* closure the operation runs; n tells apart operations of the same origin;
\* live: the component instance that started it is still mounted
HomeOp(by, n, stage, sel, accts, attempted) ==
  [by |-> by, n |-> n, stage |-> stage, accountQuery |-> Null, attempt |-> 0,
   sel |-> sel, accts |-> accts, attempted |-> attempted, live |-> TRUE]

\* a state setter called by operation o: React ignores it once the instance
\* is unmounted
SetState(o, new, old) == IF o.live THEN new ELSE old

\* state of a component instance before its first effect
FreshInstance ==
  /\ initialLoadComplete = FALSE
  /\ previousAccountId = Null
  /\ selectedAccountId = Null
  /\ accounts = <<>>
  /\ loading = TRUE
  /\ isRefreshing = FALSE
  /\ summaryStats = Null
  /\ tradesData = Null
  /\ fetchingData = FALSE
  /\ fetchError = Null
  /\ fetchSuccess = Null
  /\ hasAttemptedAutoFetch = FALSE
  /\ effectDue = FALSE

\* a new component instance is created
NewInstance ==
  /\ initialLoadComplete' = FALSE
  /\ previousAccountId' = Null
  /\ selectedAccountId' = Null
  /\ accounts' = <<>>
  /\ loading' = TRUE
  /\ isRefreshing' = FALSE
  /\ summaryStats' = Null
  /\ tradesData' = Null
  /\ fetchingData' = FALSE
  /\ fetchError' = Null
  /\ fetchSuccess' = Null
  /\ hasAttemptedAutoFetch' = FALSE
  /\ effectDue' = FALSE

\* triggerDataFetch has no answer yet
NoAnswer == [threw |-> FALSE, ok |-> FALSE, success |-> FALSE, error |-> Null,
             message |-> "<none>"]

HomeInit ==
  /\ hasInitialized = FALSE
  /\ strictMode = FALSE
  /\ homePhase = "unloaded"
  /\ mountRuns = 0
  /\ FreshInstance
  /\ homeOps = {}
  /\ homeReqs = EmptyBag
  /\ reloadIn = 0
  /\ manualAnswer = NoAnswer
  /\ userActions = 0

\* the render conditions
LoadingScreen ==
  loading \/ (hasAttemptedAutoFetch /\ (fetchingData \/ Truthy(fetchSuccess)))
HasData == summaryStats # Null /\ tradesData # Null /\ tradesData # "{}"
DashboardShown == ~LoadingScreen /\ HasData
NoDataShown == ~LoadingScreen /\ ~HasData

\* the user may act: within the bound explored
MayAct == userActions < MaxUserActions

\* no effect is waiting to run: event handlers and callbacks may run
HomeIdle == homePhase = "mounted" /\ mountRuns = 0 /\ ~effectDue

\* the callback of operation o may run: nothing cancels an operation when its
\* instance is unmounted, its fetches settle and its timers fire all the same
OpMayRun(o) == HomeIdle \/ (~o.live /\ homePhase = "away")

instanceVars == <<initialLoadComplete, previousAccountId, selectedAccountId,
                  accounts, loading, isRefreshing, summaryStats, tradesData,
                  fetchingData, fetchError, fetchSuccess, hasAttemptedAutoFetch>>

\* the page is loaded and Home is mounted
HomeLoad(strict) ==
  /\ homePhase = "unloaded"
  /\ homePhase' = "mounted"
  /\ strictMode' = strict
  /\ mountRuns' = IF strict THEN 2 ELSE 1
  /\ UNCHANGED <<hasInitialized, instanceVars, effectDue, homeOps, homeReqs,
                 reloadIn, manualAnswer, userActions>>

\* the account-change effect decides to call triggerAndLoad
EffectFires_NoNullTest(ilc, prev, sel) ==
  ilc /\ Specific(sel) /\ prev # sel

\* the account-change effect decides to call triggerAndLoad
EffectFires(ilc, prev, sel) ==
  ilc /\ Specific(sel) /\ prev # Null /\ prev # sel

\* the body of the account-change effect, for the values the render holds
AccountChangeEffect(ilc, ops, reqs, n) ==
  LET fires == EffectFires(ilc, previousAccountId, selectedAccountId) IN
  /\ previousAccountId' = IF ilc THEN selectedAccountId ELSE previousAccountId
  /\ homeOps' = IF fires
       THEN ops \cup {HomeOp("effect", n, "post", selectedAccountId, accounts,
                             hasAttemptedAutoFetch)}
       ELSE ops
  /\ homeReqs' = IF fires
       THEN Sent(reqs, HomeReq("POST", "/api/accounts/fetch-data",
                                 selectedAccountId, "triggerAndLoad", "effect"))
       ELSE reqs

\* one run of the mount effects: the initial-load effect without its guard
MountEffects_NoGuard ==
  /\ homePhase = "mounted" /\ mountRuns > 0
  /\ mountRuns' = mountRuns - 1
  /\ hasInitialized' = TRUE
  /\ initialLoadComplete' = TRUE
  /\ loading' = TRUE
  /\ AccountChangeEffect(TRUE,
        homeOps \cup {HomeOp("init", mountRuns, "accounts", selectedAccountId,
                             accounts, hasAttemptedAutoFetch)},
        Sent(homeReqs, HomeReq("GET", "/api/accounts", Null, "loadAccounts", "init")),
        0)
  /\ effectDue' = FALSE
  /\ UNCHANGED <<strictMode, homePhase, selectedAccountId, accounts, isRefreshing,
                 summaryStats, tradesData, fetchingData, fetchError, fetchSuccess,
                 hasAttemptedAutoFetch, reloadIn, manualAnswer, userActions>>

\* one run of the mount effects: the initial-load effect, which starts
\* initializeData up to its first await, then the account-change effect
MountEffects ==
  /\ homePhase = "mounted" /\ mountRuns > 0
  /\ mountRuns' = mountRuns - 1
  /\ IF hasInitialized \/ initialLoadComplete
       THEN /\ UNCHANGED <<hasInitialized, initialLoadComplete, loading>>
            /\ AccountChangeEffect(initialLoadComplete, homeOps, homeReqs, 0)
       ELSE /\ hasInitialized' = TRUE
            /\ initialLoadComplete' = TRUE
            /\ loading' = TRUE
            /\ AccountChangeEffect(TRUE,
                 homeOps \cup {HomeOp("init", mountRuns, "accounts", selectedAccountId,
                                      accounts, hasAttemptedAutoFetch)},
                 Sent(homeReqs, HomeReq("GET", "/api/accounts", Null, "loadAccounts", "init")),
                 0)
  /\ effectDue' = FALSE
  /\ UNCHANGED <<strictMode, homePhase, selectedAccountId, accounts, isRefreshing,
                 summaryStats, tradesData, fetchingData, fetchError, fetchSuccess,
                 hasAttemptedAutoFetch, reloadIn, manualAnswer, userActions>>

\* the account-change effect runs because selectedAccountId changed
AccountEffect ==
  /\ homePhase = "mounted" /\ mountRuns = 0 /\ effectDue
  /\ effectDue' = FALSE
  /\ AccountChangeEffect(initialLoadComplete, homeOps, homeReqs, userActions)
  /\ UNCHANGED <<hasInitialized, strictMode, homePhase, mountRuns,
                 initialLoadComplete, selectedAccountId, accounts, loading,
                 isRefreshing, summaryStats, tradesData, fetchingData, fetchError,
                 fetchSuccess, hasAttemptedAutoFetch, reloadIn, manualAnswer, userActions>>

\* loadData without the test for 'ALL'
LoadData_NoAllTest(ops, reqs, o, accountIdOverride) ==
  LET chosen == IF Truthy(accountIdOverride) THEN accountIdOverride ELSE o.sel
      accountQuery ==
        IF ~Truthy(chosen)
          THEN IF o.accts = <<>> THEN Null ELSE o.accts[1]
          ELSE chosen
  IN IF ~Truthy(accountQuery)
       THEN /\ summaryStats' = SetState(o, Null, summaryStats)
            /\ tradesData' = SetState(o, Null, tradesData)
            /\ loading' = SetState(o, FALSE, loading)
            /\ isRefreshing' = SetState(o, FALSE, isRefreshing)
            /\ homeOps' = ops
            /\ homeReqs' = reqs
       ELSE /\ loading' = SetState(o, TRUE, loading)
            /\ isRefreshing' = SetState(o, TRUE, isRefreshing)
            /\ UNCHANGED <<summaryStats, tradesData>>
            /\ homeOps' = ops \cup {[o EXCEPT !.stage = "get", !.accountQuery = accountQuery]}
            /\ homeReqs' = Sent(reqs, HomeReq("GET", "/api/data", accountQuery,
                                               "loadData", o.by))

\* loadData(accountIdOverride) up to its first await, run by operation o;
\* ops and reqs are the operations and requests before the call
LoadData(ops, reqs, o, accountIdOverride) ==
  LET chosen == IF Truthy(accountIdOverride) THEN accountIdOverride ELSE o.sel
      accountQuery ==
        IF ~Truthy(chosen) \/ chosen = "ALL"
          THEN IF o.accts = <<>> THEN Null ELSE o.accts[1]
          ELSE chosen
  IN IF ~Truthy(accountQuery)
       THEN /\ summaryStats' = SetState(o, Null, summaryStats)
            /\ tradesData' = SetState(o, Null, tradesData)
            /\ loading' = SetState(o, FALSE, loading)
            /\ isRefreshing' = SetState(o, FALSE, isRefreshing)
            /\ homeOps' = ops
            /\ homeReqs' = reqs
       ELSE /\ loading' = SetState(o, TRUE, loading)
            /\ isRefreshing' = SetState(o, TRUE, isRefreshing)
            /\ UNCHANGED <<summaryStats, tradesData>>
            /\ homeOps' = ops \cup {[o EXCEPT !.stage = "get", !.accountQuery = accountQuery]}
            /\ homeReqs' = Sent(reqs, HomeReq("GET", "/api/data", accountQuery,
                                               "loadData", o.by))

\* arguments and state loadData is called with, taken one by one: the
\* override, selectedAccountId (null, empty, 'ALL' or an account id) and the
\* accounts list (empty, or starting with an account whose id may be empty)
Overrides == {Null, "", "ALL", "A1", "A2"}
LoadDataAccounts == AccountLists \cup {<<"">>, <<"A2", "A1">>}

\* a mounted Home in any state loadData can be called in
LoadDataInit ==
  /\ hasInitialized = TRUE
  /\ strictMode = FALSE
  /\ homePhase = "mounted"
  /\ mountRuns = 0
  /\ initialLoadComplete = TRUE
  /\ selectedAccountId \in Overrides
  /\ previousAccountId = selectedAccountId
  /\ accounts \in LoadDataAccounts
  /\ loading \in BOOLEAN
  /\ isRefreshing \in BOOLEAN
  /\ summaryStats \in {Null, "A1"}
  /\ tradesData \in {Null, "A1"}
  /\ fetchingData = FALSE
  /\ fetchError = Null
  /\ fetchSuccess = Null
  /\ hasAttemptedAutoFetch = FALSE
  /\ effectDue = FALSE
  /\ homeOps = {}
  /\ homeReqs = EmptyBag
  /\ reloadIn = 0
  /\ manualAnswer = NoAnswer
  /\ userActions = 0

\* one call loadData(accountIdOverride), up to its first await
LoadDataCall(accountIdOverride) ==
  /\ homeOps = {} /\ homeReqs = EmptyBag
  /\ LoadData(homeOps, homeReqs,
              HomeOp("call", 1, "call", selectedAccountId, accounts, hasAttemptedAutoFetch),
              accountIdOverride)
  /\ UNCHANGED <<hasInitialized, strictMode, homePhase, mountRuns,
                 initialLoadComplete, previousAccountId, selectedAccountId,
                 accounts, fetchingData, fetchError, fetchSuccess,
                 hasAttemptedAutoFetch, effectDue, reloadIn, manualAnswer, userActions>>

LoadDataNext == \E accountIdOverride \in Overrides : LoadDataCall(accountIdOverride)

\* loadAccounts settled inside initializeData: the enabled accounts, or a
\* failure; then the background trigger, setSelectedAccountId and loadData
InitAccountsLoaded(o, failed, list) ==
  /\ OpMayRun(o) /\ o \in homeOps /\ o.stage = "accounts"
  /\ LET accountList == IF failed THEN <<>> ELSE list IN
     /\ accounts' = SetState(o, accountList, accounts)
     /\ IF accountList # <<>>
          THEN LET accountId == accountList[1] IN
               /\ selectedAccountId' = SetState(o, accountId, selectedAccountId)
               /\ effectDue' = SetState(o, accountId # selectedAccountId, effectDue)
               /\ LoadData(homeOps \ {o},
                    Sent(homeReqs, HomeReq("POST", "/api/accounts/fetch-data",
                                             accountId, "initializeData", "init")),
                    o, accountId)
          ELSE /\ loading' = SetState(o, FALSE, loading)
               /\ homeOps' = homeOps \ {o}
               /\ UNCHANGED <<selectedAccountId, effectDue, isRefreshing,
                              summaryStats, tradesData, homeReqs>>
  /\ UNCHANGED <<hasInitialized, strictMode, homePhase, mountRuns,
                 initialLoadComplete, previousAccountId, fetchingData, fetchError,
                 fetchSuccess, hasAttemptedAutoFetch, reloadIn, manualAnswer, userActions>>

\* answers of GET /api/data: the request failed or was not OK, or the body
\* holds summaryStats and/or a non-empty tradesData
DataAnswers ==
  {[ok |-> FALSE, stats |-> FALSE, trades |-> FALSE]} \cup
  [ok : {TRUE}, stats : BOOLEAN, trades : BOOLEAN]

\* answers of POST /api/accounts/fetch-data: the fetch rejects (error is the
\* message of what it threw), or it answers with a status and a body
FetchDataAnswers ==
  [threw : {TRUE}, ok : {FALSE}, success : {FALSE}, error : {"Failed to fetch"},
   message : {Null}] \cup
  [threw : {FALSE}, ok : BOOLEAN, success : BOOLEAN, error : {Null, "processor failed"},
   message : {Null}] \cup
  [threw : {FALSE}, ok : {TRUE}, success : {TRUE}, error : {Null}, message : {"started"}]

\* loadData after GET /api/data settled
LoadDataSettles(o, a) ==
  /\ OpMayRun(o) /\ o \in homeOps /\ o.stage = "get"
  /\ IF ~a.ok
       THEN /\ summaryStats' = SetState(o, Null, summaryStats)
            /\ tradesData' = SetState(o, Null, tradesData)
            /\ loading' = SetState(o, FALSE, loading)
            /\ isRefreshing' = SetState(o, FALSE, isRefreshing)
            /\ homeOps' = homeOps \ {o}
            /\ UNCHANGED <<hasAttemptedAutoFetch, fetchSuccess, homeReqs>>
       ELSE IF ~a.stats /\ ~a.trades
         THEN IF o.accts # <<>> /\ Specific(o.accountQuery) /\ ~o.attempted
           THEN /\ hasAttemptedAutoFetch' = SetState(o, TRUE, hasAttemptedAutoFetch)
                /\ loading' = SetState(o, TRUE, loading)
                /\ isRefreshing' = SetState(o, TRUE, isRefreshing)
                /\ fetchSuccess' = SetState(o, "Fetching data from cTrader and processing...",
                                            fetchSuccess)
                /\ homeOps' = (homeOps \ {o}) \cup {[o EXCEPT !.stage = "autoPost"]}
                /\ homeReqs' = Sent(homeReqs,
                     HomeReq("POST", "/api/accounts/fetch-data", o.accountQuery,
                             "loadData", o.by))
                /\ UNCHANGED <<summaryStats, tradesData>>
           ELSE /\ summaryStats' = SetState(o, Null, summaryStats)
                /\ tradesData' = SetState(o, "{}", tradesData)
                /\ loading' = SetState(o, FALSE, loading)
                /\ isRefreshing' = SetState(o, FALSE, isRefreshing)
                /\ homeOps' = homeOps \ {o}
                /\ UNCHANGED <<hasAttemptedAutoFetch, fetchSuccess, homeReqs>>
         ELSE /\ summaryStats' = SetState(o, IF a.stats THEN o.accountQuery ELSE Null,
                                          summaryStats)
              /\ tradesData' = SetState(o, IF a.trades THEN o.accountQuery ELSE "{}",
                                        tradesData)
              /\ loading' = SetState(o, FALSE, loading)
              /\ isRefreshing' = SetState(o, FALSE, isRefreshing)
              /\ homeOps' = homeOps \ {o}
              /\ UNCHANGED <<hasAttemptedAutoFetch, fetchSuccess, homeReqs>>
  /\ UNCHANGED <<hasInitialized, strictMode, homePhase, mountRuns,
                 initialLoadComplete, previousAccountId, selectedAccountId,
                 accounts, fetchingData, fetchError, effectDue, reloadIn,
                 manualAnswer, userActions>>

\* loadData after its automatic POST /api/accounts/fetch-data settled; on
\* success checkForData(1) starts its first delay
AutoFetchSettles(o, a) ==
  /\ OpMayRun(o) /\ o \in homeOps /\ o.stage = "autoPost"
  /\ IF a.threw
       THEN /\ fetchError' = SetState(o, "Failed to auto-fetch data. Please click \"Fetch Data\" manually.",
                                      fetchError)
            /\ hasAttemptedAutoFetch' = SetState(o, FALSE, hasAttemptedAutoFetch)
            /\ loading' = SetState(o, FALSE, loading)
            /\ homeOps' = homeOps \ {o}
            /\ UNCHANGED fetchSuccess
       ELSE IF a.ok /\ a.success
         THEN /\ fetchSuccess' = SetState(o, "Processing data and uploading to Firebase. Please wait...",
                                          fetchSuccess)
              /\ homeOps' = (homeOps \ {o}) \cup
                            {[o EXCEPT !.stage = "checkForData", !.attempt = 1]}
              /\ UNCHANGED <<fetchError, hasAttemptedAutoFetch, loading>>
         ELSE /\ fetchError' = SetState(o, IF Truthy(a.error) THEN a.error
                                           ELSE "Failed to auto-fetch data", fetchError)
              /\ hasAttemptedAutoFetch' = SetState(o, FALSE, hasAttemptedAutoFetch)
              /\ loading' = SetState(o, FALSE, loading)
              /\ homeOps' = homeOps \ {o}
              /\ UNCHANGED fetchSuccess
  /\ isRefreshing' = SetState(o, FALSE, isRefreshing)
  /\ UNCHANGED <<hasInitialized, strictMode, homePhase, mountRuns,
                 initialLoadComplete, previousAccountId, selectedAccountId,
                 accounts, summaryStats, tradesData, fetchingData, effectDue,
                 homeReqs, reloadIn, manualAnswer, userActions>>

\* the progress message of checkForData after a fruitless attempt
ProcessingMessage(attempt) ==
  CASE attempt = 1 -> "Processing and uploading to Firebase... (1/5)"
    [] attempt = 2 -> "Processing and uploading to Firebase... (2/5)"
    [] attempt = 3 -> "Processing and uploading to Firebase... (3/5)"
    [] OTHER       -> "Processing and uploading to Firebase... (4/5)"

\* checkForData(attempt) at the end of its delay: GET /api/data is sent
CheckForData(o) ==
  /\ OpMayRun(o) /\ o \in homeOps /\ o.stage = "checkForData"
  /\ homeOps' = (homeOps \ {o}) \cup {[o EXCEPT !.stage = "checkGet"]}
  /\ homeReqs' = Sent(homeReqs, HomeReq("GET", "/api/data", o.accountQuery,
                                       "checkForData", o.by))
  /\ UNCHANGED <<hasInitialized, strictMode, homePhase, mountRuns, instanceVars,
                 effectDue, reloadIn, manualAnswer, userActions>>

\* checkForData(attempt) after its GET /api/data settled; rejected: the
\* fetch or response.json() rejected
CheckForDataSettles(o, rejected, a) ==
  /\ OpMayRun(o) /\ o \in homeOps /\ o.stage = "checkGet"
  /\ IF ~rejected /\ (a.stats \/ a.trades)
       THEN /\ summaryStats' = SetState(o, IF a.stats THEN o.accountQuery ELSE Null,
                                        summaryStats)
            /\ tradesData' = SetState(o, IF a.trades THEN o.accountQuery ELSE "{}",
                                      tradesData)
            /\ fetchSuccess' = SetState(o, Null, fetchSuccess)
            /\ isRefreshing' = SetState(o, FALSE, isRefreshing)
            /\ loading' = SetState(o, FALSE, loading)
            /\ homeOps' = homeOps \ {o}
            /\ UNCHANGED fetchError
       ELSE IF o.attempt < MaxAttempts
         THEN /\ fetchSuccess' = IF rejected THEN fetchSuccess
                                 ELSE SetState(o, ProcessingMessage(o.attempt), fetchSuccess)
              /\ homeOps' = (homeOps \ {o}) \cup
                            {[o EXCEPT !.stage = "checkForData", !.attempt = o.attempt + 1]}
              /\ UNCHANGED <<summaryStats, tradesData, isRefreshing, loading, fetchError>>
         ELSE /\ IF rejected
                   THEN /\ fetchError' = SetState(o, "Error checking Firebase. Please try again.",
                                                  fetchError)
                        /\ UNCHANGED fetchSuccess
                   ELSE /\ fetchSuccess' = SetState(o, "Data processing may take longer. Please refresh in a moment or click \"Fetch Data\" again.",
                                                    fetchSuccess)
                        /\ UNCHANGED fetchError
              /\ isRefreshing' = SetState(o, FALSE, isRefreshing)
              /\ loading' = SetState(o, FALSE, loading)
              /\ homeOps' = homeOps \ {o}
              /\ UNCHANGED <<summaryStats, tradesData>>
  /\ UNCHANGED <<hasInitialized, strictMode, homePhase, mountRuns,
                 initialLoadComplete, previousAccountId, selectedAccountId,
                 accounts, fetchingData, hasAttemptedAutoFetch, effectDue,
                 homeReqs, reloadIn, manualAnswer, userActions>>

\* triggerAndLoad after its POST settled: OK starts the 2000 ms wait,
\* anything else goes on to loadData(selectedAccountId)
TriggerAndLoadSettles(o, ok) ==
  /\ OpMayRun(o) /\ o \in homeOps /\ o.stage = "post"
  /\ IF ok
       THEN /\ homeOps' = (homeOps \ {o}) \cup {[o EXCEPT !.stage = "wait"]}
            /\ UNCHANGED <<loading, isRefreshing, summaryStats, tradesData, homeReqs>>
       ELSE LoadData(homeOps \ {o}, homeReqs, o, o.sel)
  /\ UNCHANGED <<hasInitialized, strictMode, homePhase, mountRuns,
                 initialLoadComplete, previousAccountId, selectedAccountId,
                 accounts, fetchingData, fetchError, fetchSuccess,
                 hasAttemptedAutoFetch, effectDue, reloadIn, manualAnswer, userActions>>

\* triggerAndLoad after its wait: loadData(selectedAccountId)
TriggerAndLoadWaited(o) ==
  /\ OpMayRun(o) /\ o \in homeOps /\ o.stage = "wait"
  /\ LoadData(homeOps \ {o}, homeReqs, o, o.sel)
  /\ UNCHANGED <<hasInitialized, strictMode, homePhase, mountRuns,
                 initialLoadComplete, previousAccountId, selectedAccountId,
                 accounts, fetchingData, fetchError, fetchSuccess,
                 hasAttemptedAutoFetch, effectDue, reloadIn, manualAnswer, userActions>>

\* the entries of the account selector of TradesList
AccountOptions ==
  {accounts[i] : i \in 1..Len(accounts)} \cup
  (IF Len(accounts) > 1 THEN {"ALL"} ELSE {})

\* onAccountChange(accountId): the user picks another entry of the selector
OnAccountChange(accountId) ==
  /\ HomeIdle /\ DashboardShown /\ MayAct
  /\ accountId \in AccountOptions
  /\ accountId # (IF Truthy(selectedAccountId) THEN selectedAccountId ELSE accounts[1])
  /\ userActions' = userActions + 1
  /\ selectedAccountId' = accountId
  /\ effectDue' = (accountId # selectedAccountId)
  /\ homeOps' = homeOps \cup {HomeOp("select", userActions + 1, "timer",
                       selectedAccountId, accounts, hasAttemptedAutoFetch)}
  /\ UNCHANGED <<hasInitialized, strictMode, homePhase, mountRuns,
                 initialLoadComplete, previousAccountId, accounts, loading,
                 isRefreshing, summaryStats, tradesData, fetchingData, fetchError,
                 fetchSuccess, hasAttemptedAutoFetch, homeReqs, reloadIn, manualAnswer>>

\* the 100 ms timer of onAccountChange fires: loadData() of the render in
\* which the selector was used
AccountChangeTimer(o) ==
  /\ OpMayRun(o) /\ o \in homeOps /\ o.stage = "timer"
  /\ LoadData(homeOps \ {o}, homeReqs, o, Null)
  /\ UNCHANGED <<hasInitialized, strictMode, homePhase, mountRuns,
                 initialLoadComplete, previousAccountId, selectedAccountId,
                 accounts, fetchingData, fetchError, fetchSuccess,
                 hasAttemptedAutoFetch, effectDue, reloadIn, manualAnswer, userActions>>

\* forceRefresh: the refresh button of the dashboard header
ForceRefresh ==
  /\ HomeIdle /\ DashboardShown /\ ~isRefreshing /\ MayAct
  /\ userActions' = userActions + 1
  /\ LoadData(homeOps, homeReqs,
              HomeOp("refresh", userActions + 1, "call", selectedAccountId,
                     accounts, hasAttemptedAutoFetch),
              Null)
  /\ UNCHANGED <<hasInitialized, strictMode, homePhase, mountRuns,
                 initialLoadComplete, previousAccountId, selectedAccountId,
                 accounts, fetchingData, fetchError, fetchSuccess,
                 hasAttemptedAutoFetch, effectDue, reloadIn, manualAnswer>>

\* triggerDataFetch up to its await: the "Fetch Data from cTrader" button
TriggerDataFetch ==
  /\ HomeIdle /\ NoDataShown /\ ~fetchingData /\ MayAct
  /\ userActions' = userActions + 1
  /\ manualAnswer' = NoAnswer
  /\ fetchError' = Null
  /\ fetchSuccess' = Null
  /\ fetchingData' = TRUE
  /\ hasAttemptedAutoFetch' = TRUE
  /\ LET accountIdToFetch == IF Specific(selectedAccountId) THEN selectedAccountId
                                                            ELSE Null IN
     /\ homeOps' = homeOps \cup {[HomeOp("manual", userActions + 1, "manualPost",
                                         selectedAccountId, accounts,
                                         hasAttemptedAutoFetch)
                                  EXCEPT !.accountQuery = accountIdToFetch]}
     /\ homeReqs' = Sent(homeReqs, HomeReq("POST", "/api/accounts/fetch-data",
                              accountIdToFetch, "triggerDataFetch", "manual"))
  /\ UNCHANGED <<hasInitialized, strictMode, homePhase, mountRuns,
                 initialLoadComplete, previousAccountId, selectedAccountId,
                 accounts, loading, isRefreshing, summaryStats, tradesData,
                 effectDue, reloadIn>>

\* the request of triggerDataFetch failed
FetchFailed(a) == a.threw \/ ~a.ok \/ Truthy(a.error)

\* triggerDataFetch after its POST settled; the catch shows the message of
\* what was thrown: by fetch, or by line 127 with the body's error. (The
\* default success message ends in the ellipsis character, written ... here.)
TriggerDataFetchSettles(o, a) ==
  /\ OpMayRun(o) /\ o \in homeOps /\ o.stage = "manualPost"
  /\ homeOps' = homeOps \ {o}
  /\ manualAnswer' = a
  /\ IF FetchFailed(a)
       THEN /\ fetchError' = SetState(o, IF Truthy(a.error) THEN a.error
                                         ELSE "Failed to trigger data fetch", fetchError)
            /\ fetchingData' = SetState(o, FALSE, fetchingData)
            /\ hasAttemptedAutoFetch' = SetState(o, FALSE, hasAttemptedAutoFetch)
            /\ UNCHANGED <<fetchSuccess, reloadIn>>
       ELSE /\ fetchSuccess' = SetState(o, IF Truthy(a.message) THEN a.message
                   ELSE "Data fetch started. This may take a moment...", fetchSuccess)
            /\ reloadIn' = ReloadDelay
            /\ UNCHANGED <<fetchError, fetchingData, hasAttemptedAutoFetch>>
  /\ UNCHANGED <<hasInitialized, strictMode, homePhase, mountRuns,
                 initialLoadComplete, previousAccountId, selectedAccountId,
                 accounts, loading, isRefreshing, summaryStats, tradesData,
                 effectDue, homeReqs, userActions>>

\* the scheduled window.location.reload(): the page starts afresh
PageReload ==
  /\ reloadIn > 0
  /\ hasInitialized' = FALSE
  /\ strictMode' = FALSE
  /\ homePhase' = "unloaded"
  /\ mountRuns' = 0
  /\ NewInstance
  /\ homeOps' = {}
  /\ homeReqs' = EmptyBag
  /\ reloadIn' = 0
  /\ manualAnswer' = NoAnswer
  /\ userActions' = 0

\* the user opens the Accounts page from the sidebar: Home is unmounted.
\* No effect of Home has a cleanup that cancels a fetch or a timer, so the
\* operations in flight go on; only their state setters are ignored
LeaveHome ==
  /\ HomeIdle /\ DashboardShown /\ MayAct
  /\ userActions' = userActions + 1
  /\ homePhase' = "away"
  /\ homeOps' = {[o EXCEPT !.live = FALSE] : o \in homeOps}
  /\ UNCHANGED <<hasInitialized, strictMode, mountRuns, instanceVars, effectDue,
                 homeReqs, reloadIn, manualAnswer>>

\* the user comes back: a new Home instance is mounted in the same page
ReturnHome ==
  /\ homePhase = "away"
  /\ homePhase' = "mounted"
  /\ mountRuns' = IF strictMode THEN 2 ELSE 1
  /\ NewInstance
  /\ UNCHANGED <<hasInitialized, strictMode, homeOps, homeReqs, reloadIn, manualAnswer, userActions>>

\* the automatic fetches started so far
AutoFetches ==
  LET posts == {r \in BagToSet(homeReqs) : r.site = "loadData" /\ r.method = "POST"}
  IN BagCardinality([r \in posts |-> homeReqs[r]])

\* answer a to the GET of operation o makes loadData start an automatic fetch
StartsAutoFetch(o, a) ==
  a.ok /\ ~a.stats /\ ~a.trades /\ o.accts # <<>> /\ Specific(o.accountQuery) /\ ~o.attempted

HomeNext ==
  \/ \E strict \in BOOLEAN : HomeLoad(strict)
  \/ MountEffects
  \/ AccountEffect
  \/ \E o \in homeOps, failed \in BOOLEAN, list \in AccountLists :
       InitAccountsLoaded(o, failed, list)
  \/ \E o \in homeOps, a \in DataAnswers :
       /\ StartsAutoFetch(o, a) => AutoFetches < MaxAutoFetches
       /\ LoadDataSettles(o, a)
  \/ \E o \in homeOps, a \in FetchDataAnswers : AutoFetchSettles(o, a)
  \/ \E o \in homeOps : CheckForData(o)
  \/ \E o \in homeOps, rejected \in BOOLEAN, a \in DataAnswers :
       CheckForDataSettles(o, rejected, a)
  \/ \E o \in homeOps, ok \in BOOLEAN : TriggerAndLoadSettles(o, ok)
  \/ \E o \in homeOps : TriggerAndLoadWaited(o)
  \/ \E accountId \in {"A1", "A2", "ALL"} : OnAccountChange(accountId)
  \/ \E o \in homeOps : AccountChangeTimer(o)
  \/ ForceRefresh
  \/ TriggerDataFetch
  \/ \E o \in homeOps, a \in FetchDataAnswers : TriggerDataFetchSettles(o, a)
  \/ PageReload
  \/ LeaveHome
  \/ ReturnHome

(***************************************************************************)
(* Account manager command line (api/accounts routes)                      *)
(***************************************************************************)

\* longest client-supplied argument explored
MaxArgLen == 3

\* longest account name, and longest client-supplied `enabled` string
MaxNameLen == 2

MaxEnabledLen == 1

\* characters of an argument: a plain character, the four characters
\* escapeArg tests for, and two more that the shell treats specially
Chars == {"a", " ", "\"", "&", "|", ";", "\\"}

\* strings are sequences of characters; a literal word of the route is kept
\* as one element
RECURSIVE StringsUpTo(_)
StringsUpTo(n) ==
  IF n = 0 THEN {<<>>}
  ELSE LET shorter == StringsUpTo(n - 1) IN
       shorter \cup {Append(str, c) : str \in {t \in shorter : Len(t) = n - 1}, c \in Chars}

\* account ids a client can send (every route rejects or leaves out an empty one)
ClientStrings == StringsUpTo(MaxArgLen) \ {<<>>}

\* names of POST /api/accounts (`if (name)`: an empty one is left out) and of
\* PATCH /api/accounts/[id] (`body.name !== undefined`: an empty one is passed)
AddNames == StringsUpTo(MaxNameLen) \ {<<>>}

UpdateNames == StringsUpTo(MaxNameLen)

\* body.enabled.toString(): of a boolean, or of a string the client sent
EnabledStrings == {<<"true">>, <<"false">>} \cup StringsUpTo(MaxEnabledLen)

\* the args the routes pass for the account ids in ids: GET /api/accounts,
\* POST /api/accounts (validate, then add), DELETE and PATCH
\* /api/accounts/[id], POST /api/accounts/fetch-data
ArgLists(ids) ==
  {<<<<"list">>>>, <<<<"fetch-data">>>>}
    \cup {<<<<"validate">>, id>> : id \in ids}
    \cup {<<<<"add">>, id>> : id \in ids}
    \cup {<<<<"add">>, id, <<"--name">>, name>> : id \in ids, name \in AddNames}
    \cup {<<<<"delete">>, id>> : id \in ids}
    \cup {<<<<"update">>, id, <<"--name">>, name>> : id \in ids, name \in UpdateNames}
    \cup {<<<<"update">>, id, <<"--enabled">>, enabled>> :
            id \in ids, enabled \in EnabledStrings}
    \cup {<<<<"update">>, id, <<"--name">>, name, <<"--enabled">>, enabled>> :
            id \in ids, name \in StringsUpTo(1), enabled \in EnabledStrings}
    \cup {<<<<"fetch-data">>, <<"--account-id">>, id>> : id \in ids}

CmdInit ==
  /\ cmdPc = "idle"
  /\ cmdArgs = <<>>
  /\ cmdLine = <<>>
  /\ cmdParsed = [error |-> FALSE, cmds |-> <<>>]

\* arg.replace(/"/g, '\\"')
RECURSIVE EscapeQuotes(_)
EscapeQuotes(arg) ==
  IF arg = <<>> THEN <<>>
  ELSE (IF Head(arg) = "\"" THEN <<"\\", "\"">> ELSE <<Head(arg)>>) \o EscapeQuotes(Tail(arg))

\* escapeArg
escapeArg(arg) ==
  IF Includes(arg, " ") \/ Includes(arg, "\"") \/ Includes(arg, "&") \/ Includes(arg, "|")
    THEN <<"\"">> \o EscapeQuotes(arg) \o <<"\"">>
    ELSE arg

\* args.map(escapeArg).join(' ')
RECURSIVE EscapedArgs(_)
EscapedArgs(args) ==
  IF args = <<>> THEN <<>>
  ELSE IF Len(args) = 1 THEN escapeArg(args[1])
  ELSE escapeArg(args[1]) \o <<" ">> \o EscapedArgs(Tail(args))

\* `conda run -n trader-env python "${ACCOUNT_MANAGER_CLI}" ${escapedArgs}`;
\* a literal piece of the template is kept as one element
Command(escapedArgs) ==
  <<"conda", " ", "run", " ", "-n", " ", "trader-env", " ", "python", " ",
    "\"", "account_manager_cli.py", "\"", " ">> \o escapedArgs

\* the words of the template
CommandWords ==
  <<<<"conda">>, <<"run">>, <<"-n">>, <<"trader-env">>, <<"python">>,
    <<"account_manager_cli.py">>>>

\* what /bin/sh (exec with shell: true) makes of a command line: outside
\* quotes a space ends a word, the operators ; & | && || end the command, a
\* backslash takes the next character literally; inside double quotes only
\* the closing quote is special, and a backslash before a quote or a
\* backslash. An unclosed quote, an operator with no command before it, and
\* | && || with no command after it are syntax errors: the shell runs nothing.
ControlOperators == {";", "&", "|"}

SyntaxError == [error |-> TRUE, cmds |-> <<>>]

Flush(acc, word, inWord) ==
  IF inWord THEN [acc EXCEPT !.words = Append(@, word)] ELSE acc

\* pending: the operator that ended the command needs a command after it
EndCommand(acc, pending) ==
  [words |-> <<>>, cmds |-> Append(acc.cmds, acc.words), pending |-> pending]

RECURSIVE Scan(_, _, _, _, _, _)
Scan(line, i, mode, word, inWord, acc) ==
  IF i > Len(line)
    THEN IF mode = "dq" THEN SyntaxError
         ELSE LET last == Flush(acc, word, inWord) IN
              IF last.words # <<>>
                THEN [error |-> FALSE, cmds |-> Append(last.cmds, last.words)]
              ELSE IF last.pending THEN SyntaxError
              ELSE [error |-> FALSE, cmds |-> last.cmds]
  ELSE LET c == line[i] IN
    IF mode = "plain"
      THEN IF c = " " THEN Scan(line, i + 1, "plain", <<>>, FALSE, Flush(acc, word, inWord))
           ELSE IF c = "\"" THEN Scan(line, i + 1, "dq", word, TRUE, acc)
           ELSE IF c = "\\" THEN
                  IF i < Len(line)
                    THEN Scan(line, i + 2, "plain", Append(word, line[i + 1]), TRUE, acc)
                    ELSE Scan(line, i + 1, "plain", Append(word, c), TRUE, acc)
           ELSE IF c \in ControlOperators
                  THEN LET ended == Flush(acc, word, inWord)
                           double == c \in {"&", "|"} /\ i < Len(line) /\ line[i + 1] = c
                       IN IF ended.words = <<>> THEN SyntaxError
                          ELSE Scan(line, IF double THEN i + 2 ELSE i + 1, "plain", <<>>, FALSE,
                                    EndCommand(ended, double \/ c = "|"))
           ELSE Scan(line, i + 1, "plain", Append(word, c), TRUE, acc)
      ELSE IF c = "\"" THEN Scan(line, i + 1, "plain", word, TRUE, acc)
           ELSE IF c = "\\" /\ i < Len(line) /\ line[i + 1] \in {"\"", "\\"}
                  THEN Scan(line, i + 2, "dq", Append(word, line[i + 1]), TRUE, acc)
           ELSE Scan(line, i + 1, "dq", Append(word, c), TRUE, acc)

ShellWords(line) ==
  Scan(line, 1, "plain", <<>>, FALSE, [words |-> <<>>, cmds |-> <<>>, pending |-> FALSE])

\* runAccountManagerCommand(args) up to execAsync(command, ...)
RunAccountManagerCommand(args) ==
  /\ cmdPc = "idle"
  /\ cmdPc' = "exec"
  /\ cmdArgs' = args
  /\ cmdLine' = Command(EscapedArgs(args))
  /\ UNCHANGED cmdParsed

\* the shell parses the command line
ExecShell ==
  /\ cmdPc = "exec"
  /\ cmdPc' = "done"
  /\ cmdParsed' = ShellWords(cmdLine)
  /\ UNCHANGED <<cmdArgs, cmdLine>>

CmdNext ==
  \/ cmdPc = "idle" /\ \E args \in ArgLists(ClientStrings) : RunAccountManagerCommand(args)
  \/ ExecShell

(***************************************************************************)
(* Properties of the API routes                                            *)
(***************************************************************************)

\* C5: GET /api/data with accountId missing, empty or 'ALL' is answered 400
\* 'Account ID is required' and the upstream account-data API is not contacted.
C5_AccountIdRequired ==
  (apiReq.route = "data" /\ apiReq.accountId \in {Null, "", "ALL"}) =>
     /\ apiPc = "done"
     /\ apiResp.status = 400
     /\ apiResp.error = "Account ID is required"
     /\ apiUpstream = 0

C5_Witness ==
  /\ apiReq.route = "data" /\ apiReq.accountId = "ALL"
  /\ apiPc = "done" /\ apiResp.status = 400 /\ apiUpstream = 0

ProxyRoutes == {"register-token", "send-notification"}

\* C6 (as claimed): the proxy routes never forward a request without token
\* (400), contact the service at most once, answer success:true only if the
\* service answered OK with success true, answer 503 'Notification service
\* unavailable' when the service cannot be reached, and otherwise answer
\* success:false with the service's status code.
C6_ProxyContract ==
  (apiReq.route \in ProxyRoutes /\ apiReq.parsed) =>
     /\ apiUpstream <= 1
     /\ ~Truthy(apiReq.token) =>
           (apiPc = "done" /\ apiResp.status = 400 /\ apiUpstream = 0)
     /\ (apiPc = "done" /\ apiUpstream = 1) =>
           /\ apiResp.success = "true" =>
                 (apiOut.reached /\ IsOk(apiOut.status) /\ apiOut.success)
           /\ ~apiOut.reached =>
                 /\ apiResp.status = 503
                 /\ apiResp.error = "Notification service unavailable"
           /\ (apiOut.reached /\ ~(IsOk(apiOut.status) /\ apiOut.json /\ apiOut.success)) =>
                 /\ apiResp.success = "false"
                 /\ apiResp.status = apiOut.status

\* C8 (as claimed): POST /api/accounts runs `add` only directly after a
\* `validate` of the same account id that returned valid and not existing;
\* and whenever account_id is missing from the request, validation fails, the
\* id is invalid or the account exists, it answers 400 and never runs `add`.
C8_AddOnlyAfterValidate ==
  apiReq.route = "accounts" =>
     /\ \A i \in 1..Len(apiCli) :
          apiCli[i].cmd = "add" =>
             /\ i > 1
             /\ apiCli[i-1].cmd = "validate"
             /\ apiCli[i-1].id = apiCli[i].id
             /\ apiCli[i].id = apiReq.account_id
             /\ ~apiCli[i-1].result.threw
             /\ apiCli[i-1].result.valid
             /\ ~apiCli[i-1].result.exists
     /\ (/\ apiPc = "done"
         /\ \/ ~Truthy(apiReq.account_id)
            \/ \E i \in 1..Len(apiCli) :
                  /\ apiCli[i].cmd = "validate"
                  /\ \/ apiCli[i].result.threw
                     \/ ~apiCli[i].result.valid
                     \/ apiCli[i].result.exists)
        => /\ apiResp.status = 400
           /\ \A i \in 1..Len(apiCli) : apiCli[i].cmd # "add"

(***************************************************************************)
(* Properties of the service worker's fetch handler                        *)
(***************************************************************************)

\* C7: every cache entry written by the fetch handler, and every cache write
\* it has started, is the response to a
\* GET request, has an OK status (so is no 404) and is not text/html; and a
\* request to the dev server, to a /_next/, webpack or chunk path, or with a
\* 'v' query parameter is never intercepted.
C7_CacheOnlyGetOkNonHtml ==
  /\ \A u \in FetchUrls :
        swCache[u].by = "fetch" =>
           /\ swCache[u].method = "GET"
           /\ IsOk(swCache[u].status)
           /\ swCache[u].status # 404
           /\ ~Includes(swCache[u].ctype, "text/html")
  /\ \A put \in BagToSet(swPuts) :
        /\ put.method = "GET"
        /\ IsOk(put.status)
        /\ put.status # 404
        /\ ~Includes(put.ctype, "text/html")
  /\ (/\ fcPc \notin {"new", "idle"}
      /\ \/ fcReq.url.hostname \in {"localhost", "127.0.0.1"} /\ fcReq.url.port = <<"3000">>
         \/ StartsWith(fcReq.url.pathname, "/_next/")
         \/ Includes(fcReq.url.pathname, "webpack")
         \/ Includes(fcReq.url.pathname, "chunks")
         \/ HasV(fcReq.url))
       => ~fcIntercepted

\* something was cached by the handler, and an answer from the network was
\* served with no cache write started for it
C7_Witness ==
  /\ \E u \in FetchUrls : swCache[u].by = "fetch"
  /\ fcPc = "done" /\ fcServed = "network" /\ fcIntercepted
  /\ swCache[fcReq.url] = NoEntry
  /\ \A put \in BagToSet(swPuts) : put.url # fcReq.url

(***************************************************************************)
(* Properties of the service worker's push handling                        *)
(***************************************************************************)

\* C1 (as claimed): when one push triggers both the Firebase background
\* handler and the native 'push' listener, showNotification is called at
\* most once for that push, whatever the interleaving.
C1_AtMostOneShowPerPush ==
  \A p \in 1..Len(swPush) :
     (\A h \in Handlers : swH[p][h].pc # "none") => swShows[p] <= 1

\* C11: notificationShown stays true for NOTIFICATION_TIMEOUT after the most
\* recent event that set it (a shown notification or a broadcast), whatever
\* timers of earlier events are pending, so a handler that starts within
\* that time is blocked by the flag.
C11_FlagHeldForTimeout ==
  /\ [](swLastSet * SwTick < NOTIFICATION_TIMEOUT => notificationShown)
  /\ [][\A p \in 1..MaxPushes, h \in Handlers :
          (swLastSet * SwTick < NOTIFICATION_TIMEOUT /\ swH[p][h].pc = "queued")
            => swH'[p][h].pc \in {"queued", "blocked"}]_vars

\* the handler run h of a push saw, in the list getNotifications() reported,
\* a notification with its tag or a recent one with its title and body
SawDuplicate(h) ==
  /\ h.pc = "then" /\ ~h.rejected
  /\ (h.tagMatches \/ h.recentAge * SwTick < RecentWindow)

\* push p was displayed: a showNotification call for it succeeded
Displayed(p) == \E h \in Handlers : swH[p][h].pc = "shown"

\* C12 (as claimed): neither handler calls showNotification for a push for
\* which getNotifications() reported a notification with the same tag, or one
\* with the same title and body less than 2000 ms old; so a push whose
\* getNotifications() succeeded is never displayed while the notification of
\* another push with the same data.tag is on display.
C12_NoDuplicateShown ==
  /\ [][\A p \in 1..MaxPushes, h \in Handlers :
          SawDuplicate(swH[p][h]) => swH'[p][h].pc \in {"then", "blocked"}]_vars
  /\ [][\A p, q \in 1..Len(swPush), h \in Handlers :
          (/\ p # q /\ Truthy(swPush[p].tag) /\ swPush[p].tag = swPush[q].tag
           /\ Displayed(p)
           /\ \E n \in swNotifs : n.tag = DataTag(swPush[p].tag)
           /\ swH[q][h].pc = "showing" /\ ~swH[q][h].rejected)
            => swH'[q][h].pc # "shown"]_vars

\* C13 (as claimed): in the Firebase background handler, a rejected
\* showNotification leaves notificationShown and firebaseHandledNotification
\* false (a retry is not blocked by them), and a rejected getNotifications()
\* still leads to one showNotification call for the push (fallback).
C13_ErrorPaths ==
  [][\A p \in 1..MaxPushes :
       /\ (swH[p]["fb"].pc = "showing" /\ swH'[p]["fb"].pc = "failed")
            => (~notificationShown' /\ ~firebaseHandledNotification')
       /\ (/\ swH[p]["fb"].pc = "then" /\ swH[p]["fb"].rejected
           /\ swH'[p]["fb"].pc # "then")
            => /\ swShows'[p] = swShows[p] + 1
               /\ swH'[p]["fb"].pc = "showing"]_vars

(***************************************************************************)
(* Properties of NotificationHandler                                       *)
(***************************************************************************)

\* C2: a foreground message whose data.tag was marked as shown less than
\* 2000 ms earlier is blocked as a duplicate: the handler leaves
\* 'recent-notifications' in localStorage as it is and processes nothing.
C2_DuplicateBlocked ==
  [][\A t \in FgTags :
       (/\ fgLast'.seq # fgLast.seq
        /\ fgLast'.tag = t
        /\ fgMarked[t] * FgTick < NOTIFICATION_COOLDOWN)
       => (/\ fgLast'.outcome = "duplicate"
           /\ fgRecent' = fgRecent
           /\ fgMarked' = fgMarked)]_vars

\* a message was blocked 1000 ms after the one with its tag was marked
C2_Witness ==
  \E t \in FgTags :
     /\ fgLast.tag = t /\ fgLast.outcome = "duplicate"
     /\ fgMarked[t] * FgTick > 0 /\ fgMarked[t] * FgTick < NOTIFICATION_COOLDOWN

\* C10: 'fcm_token_registered' is written only when POST /api/register-token
\* answered success:true, and then with the token of that request; no
\* request is sent for the token that is registered; a failed or errored
\* request leaves 'fcm_token_registered' as it is, and the page load after
\* it gets past the stored-token check and posts that token again.
C10_RegisteredOnlyOnSuccess ==
  [][/\ (lsRegistered' # lsRegistered /\ lsRegistered' # Null) =>
          (regPc = "posting" /\ regAnswer' = "success" /\ lsRegistered' = regPosted)
     /\ (regPc # "posting" /\ regPc' = "posting") =>
          (regPosted' # lsRegistered /\ regPosted' = regCurrent' /\ lsRegistered' = lsRegistered)
     /\ (regPc = "posting" /\ regPc' = "done" /\ regAnswer' \in {"failed", "error"}) =>
          lsRegistered' = lsRegistered
     /\ (/\ regAnswer \in {"failed", "error"} /\ lsToken = regPosted
         /\ regPc \in {"loaded", "permission"}
         /\ regPc' \notin {"loaded", "permission", "denied"})
          => regPc' = "getToken"
     /\ (/\ regAnswer \in {"failed", "error"}
         /\ regPc = "getToken" /\ regCurrent' = regPosted)
          => regPc' = "posting"]_vars

\* a registration failed while another token was registered, the page was
\* loaded again and got past the stored-token check
C10_Witness ==
  /\ regPc = "getToken" /\ regAnswer = "failed"
  /\ lsToken = regPosted /\ lsRegistered # Null /\ lsRegistered # regPosted

\* C15: within one page load, whatever the sequence of mounts and unmounts
\* (the StrictMode mount, unmount, mount included), a mounted
\* NotificationHandler has exactly one foreground onMessage listener
\* subscribed: never none, never two.
C15_ExactlyOneListener == nhMounted => nhListeners = 1

\* C14: the foreground onMessage handler creates no browser Notification on
\* any of its paths (duplicate, hidden, delegated, permission not granted),
\* so the notifications displayed for a push are those of the service worker.
C14_NoForegroundNotification == fgNotifications = 0

\* a message went down the path that used to display it: page visible,
\* permission granted, not a duplicate
C14_Witness ==
  /\ fgLast.outcome = "delegated"
  /\ ~fgHidden /\ fgPermission = "granted"
  /\ fgLast.tag \in FgTags /\ fgMarked[fgLast.tag] = 0

(***************************************************************************)
(* Properties of the Home page                                             *)
(***************************************************************************)

\* the different GET /api/data requests issued so far
DataGets == {r \in BagToSet(homeReqs) : r.method = "GET" /\ r.url = "/api/data"}

\* initializeData has run to its end
InitialLoadDone ==
  /\ HomeIdle /\ initialLoadComplete
  /\ \A o \in homeOps : o.by # "init"

\* C3: on the initial page load, before any user action, GET /api/data is
\* requested at most once, only for the first enabled account, and exactly
\* once when the initial load has finished with at least one enabled account;
\* this also holds when StrictMode runs the mount effects twice.
C3_InitialLoadOnce ==
  (homePhase = "mounted" /\ userActions = 0) =>
    /\ \A r \in DataGets :
         /\ homeReqs[r] = 1
         /\ accounts # <<>> /\ r.accountId = accounts[1]
    /\ Cardinality(DataGets) <= 1
    /\ (InitialLoadDone /\ accounts # <<>>) => Cardinality(DataGets) = 1

\* C3 witness: StrictMode ran the mount effects twice, the initial load is
\* over and shows the data of the first account, fetched by one request
C3_Witness ==
  /\ strictMode /\ homePhase = "mounted" /\ userActions = 0
  /\ InitialLoadDone /\ DashboardShown
  /\ Len(accounts) = 2 /\ summaryStats = accounts[1]
  /\ Cardinality(DataGets) = 1

\* request r is issued by the step
Issued(r) ==
  /\ r \in BagToSet(homeReqs')
  /\ CopiesIn(r, homeReqs') > CopiesIn(r, homeReqs)

\* C4: the account-change effect posts to fetch-data, and then calls
\* loadData for the same account, only when selectedAccountId has become a
\* specific account id different from its previous, non-null value (which
\* previousAccountId holds); the assignment made by the initial load
\* triggers no request of the effect.
C4_EffectOnlyOnChange ==
  /\ [][\A r \in BagToSet(homeReqs') :
          /\ (Issued(r) /\ r.site = "triggerAndLoad") =>
               /\ effectDue
               /\ Specific(selectedAccountId)
               /\ r.accountId = selectedAccountId
               /\ previousAccountId # Null
               /\ previousAccountId # selectedAccountId
          /\ (Issued(r) /\ r.by = "effect" /\ r.site = "loadData" /\ r.method = "GET") =>
               /\ \E o \in homeOps : /\ o.by = "effect" /\ o.stage \in {"post", "wait"}
                                     /\ o.sel = r.accountId
               /\ \E q \in BagToSet(homeReqs) : /\ q.site = "triggerAndLoad"
                                                /\ q.accountId = r.accountId]_vars
  /\ [](userActions = 0 => \A r \in BagToSet(homeReqs) : r.by # "effect")
  /\ []((HomeIdle /\ initialLoadComplete) => previousAccountId = selectedAccountId)

\* C4 witness: after the initial load selected A1 the user selected A2, and
\* the effect posted to fetch-data and then requested the data of A2
C4_Witness ==
  /\ userActions = 1 /\ selectedAccountId = "A2" /\ previousAccountId = "A2"
  /\ \E r \in BagToSet(homeReqs) : r.site = "triggerAndLoad" /\ r.accountId = "A2"
  /\ \E r \in DataGets : r.by = "effect" /\ r.accountId = "A2"

\* C9: when the request of a manual triggerDataFetch fails (thrown, not OK,
\* or a body with an error), fetchError holds a message, fetchingData and
\* hasAttemptedAutoFetch are false and no reload is scheduled; when it
\* succeeds, the reload is scheduled 4000 ms later and fetchError is null.
C9_ManualFetchOutcome ==
  [][(manualAnswer' # NoAnswer /\ manualAnswer = NoAnswer) =>
       IF FetchFailed(manualAnswer')
         THEN /\ Truthy(fetchError')
              /\ ~fetchingData'
              /\ ~hasAttemptedAutoFetch'
              /\ reloadIn' = 0
         ELSE /\ reloadIn' = ReloadDelay
              /\ fetchError' = Null]_vars

\* C17: once every request started by a switch of the selected account has
\* completed, in whatever order, the statistics and trades shown are those
\* of the selected account, never those of another account.
C17_DataOfSelectedAccount ==
  (/\ homePhase = "mounted" /\ HomeIdle /\ homeOps = {}
   /\ userActions > 0 /\ Specific(selectedAccountId))
    => /\ summaryStats \in {Null, selectedAccountId}
       /\ tradesData \in {Null, "{}", selectedAccountId}

\* C18: loadData never requests GET /api/data with accountId 'ALL' or empty;
\* when neither the override nor selectedAccountId is a specific account it
\* requests the first account of the list; and when the list is empty it
\* issues no request and sets summaryStats and tradesData to null and
\* loading and isRefreshing to false.
C18_LoadDataAccount ==
  [][\A ov \in Overrides :
       LoadDataCall(ov) =>
         LET unspecific == ~Specific(ov) /\ ~Specific(selectedAccountId) IN
         /\ \A r \in BagToSet(homeReqs') :
              r.method = "GET" /\ r.url = "/api/data" /\ Specific(r.accountId)
         /\ (unspecific /\ accounts # <<>> /\ Truthy(accounts[1]))
              => homeReqs' = SetToBag({HomeReq("GET", "/api/data", accounts[1],
                                               "loadData", "call")})
         /\ (unspecific /\ accounts = <<>>)
              => /\ homeReqs' = EmptyBag
                 /\ summaryStats' = Null /\ tradesData' = Null
                 /\ ~loading' /\ ~isRefreshing']_vars

\* 'ALL' is selected and loadData requested the first account of the list
C18_Witness ==
  /\ selectedAccountId = "ALL" /\ accounts = <<"A2", "A1">>
  /\ \E r \in DataGets : r.accountId = "A2" /\ r.site = "loadData"
  /\ homeOps # {} /\ loading /\ isRefreshing

\* C16: every mount of Home, the first of a page session or a re-mount after
\* navigating to another route and back, eventually sets loading to false
\* (or the page is left again), provided every fetch completes.
C16_LoadingEnds ==
  (homePhase = "mounted" /\ loading) ~> (~loading \/ homePhase # "mounted")

(***************************************************************************)
(* Properties of the account manager command line                          *)
(***************************************************************************)

\* C19: whatever the client-supplied id and name, the command line carries
\* exactly one word per argument, equal to the original argument, and no
\* further word or command.
C19_OneWordPerArgument ==
  cmdPc = "done" => (~cmdParsed.error /\ cmdParsed.cmds = <<CommandWords \o cmdArgs>>)

(***************************************************************************)
(* Specifications                                                          *)
(***************************************************************************)

Init == ApiInit /\ FcInit /\ SwInit /\ FgInit /\ RegInit /\ HomeInit /\ CmdInit

SpecApi == Init /\ [][ApiNext /\ UNCHANGED <<fcVars, swVars, fgVars, regVars, homeVars, cmdVars>>]_vars

InitFetch == ApiInit /\ FcInitLegacy /\ SwInit /\ FgInit /\ RegInit /\ HomeInit /\ CmdInit

SpecFetch ==
  /\ InitFetch
  /\ [][FcNext /\ UNCHANGED <<apiVars, swVars, fgVars, regVars, homeVars, cmdVars>>]_vars

SpecPush == Init /\ [][SwNext /\ UNCHANGED <<apiVars, fcVars, fgVars, regVars, homeVars, cmdVars>>]_vars

SpecPushBoth ==
  Init /\ [][SwBothNext /\ UNCHANGED <<apiVars, fcVars, fgVars, regVars, homeVars, cmdVars>>]_vars

SpecForeground == Init /\ [][FgNext /\ UNCHANGED <<apiVars, fcVars, swVars, regVars, homeVars, cmdVars>>]_vars

SpecRegister == Init /\ [][RegNext /\ UNCHANGED <<apiVars, fcVars, swVars, fgVars, homeVars, cmdVars>>]_vars

SpecHome == Init /\ [][HomeNext /\ UNCHANGED <<apiVars, fcVars, swVars, fgVars, regVars, cmdVars>>]_vars


\* the steps the run time takes by itself: effects run after a render, every
\* fetch completes, every timer fires; the steps of the user are not forced
HomeProgress ==
  \/ MountEffects
  \/ AccountEffect
  \/ \E o \in homeOps, failed \in BOOLEAN, list \in AccountLists :
       InitAccountsLoaded(o, failed, list)
  \/ \E o \in homeOps, a \in DataAnswers :
       /\ StartsAutoFetch(o, a) => AutoFetches < MaxAutoFetches
       /\ LoadDataSettles(o, a)
  \/ \E o \in homeOps, a \in FetchDataAnswers : AutoFetchSettles(o, a)
  \/ \E o \in homeOps : CheckForData(o)
  \/ \E o \in homeOps, rejected \in BOOLEAN, a \in DataAnswers :
       CheckForDataSettles(o, rejected, a)
  \/ \E o \in homeOps, ok \in BOOLEAN : TriggerAndLoadSettles(o, ok)
  \/ \E o \in homeOps : TriggerAndLoadWaited(o)
  \/ \E o \in homeOps : AccountChangeTimer(o)
  \/ \E o \in homeOps, a \in FetchDataAnswers : TriggerDataFetchSettles(o, a)
  \/ PageReload

SpecHomeFair ==
  /\ Init
  /\ [][HomeNext /\ UNCHANGED <<apiVars, fcVars, swVars, fgVars, regVars, cmdVars>>]_vars
  /\ WF_vars(HomeProgress /\ UNCHANGED <<apiVars, fcVars, swVars, fgVars, regVars, cmdVars>>)

InitLoadData == ApiInit /\ FcInit /\ SwInit /\ FgInit /\ RegInit /\ LoadDataInit /\ CmdInit

SpecLoadData ==
  /\ InitLoadData
  /\ [][LoadDataNext /\ UNCHANGED <<apiVars, fcVars, swVars, fgVars, regVars, cmdVars>>]_vars

SpecCommand ==
  Init /\ [][CmdNext /\ UNCHANGED <<apiVars, fcVars, swVars, fgVars, regVars, homeVars>>]_vars

====
